---------------------------- MODULE Spec2Model ----------------------------
(***************************************************************************)
(* State-machine model of the telegram-backup-bot upload pipeline          *)
(* (telegram_client.py), the per-run deletion of uploaded files            *)
(* (main.py, cleanup_manager.py) and the session orchestrator              *)
(* (BackupBot.run).                                                        *)
(*                                                                         *)
(* The program is single-threaded (one asyncio task); an action is the     *)
(* code executed between two suspension points (await client.send_file,    *)
(* await asyncio.sleep).  File sizes are counted in MiB (1 unit = 2^20     *)
(* bytes), so size_bytes and size_mb of a record carry the same number.    *)
(***************************************************************************)
EXTENDS Integers, Sequences, FiniteSets, TLC

(***************************************************************************)
(* Bounds of the model                                                     *)
(***************************************************************************)
MaxFiles == 3          \* longest file list handed to send_files_batch
MaxFlood == 2          \* most rate-limit signals the transport raises per file
MaxLog   == 3          \* most rows written to one history log (SpecHistory)

(***************************************************************************)
(* Program constants (config.example.py)                                   *)
(***************************************************************************)
MAX_FILE_SIZE             == 2 * 1024      \* 2 GiB, in MiB
MAX_RETRY_ATTEMPTS        == 3
RETRY_DELAY               == 30
PAUSE_BETWEEN_FILES       == 3
PAUSE_FOR_LARGE_FILES     == 10
PAUSE_VERY_LARGE_FILES    == 25
LARGE_FILE_THRESHOLD      == 100
VERY_LARGE_FILE_THRESHOLD == 1000

(***************************************************************************)
(* Input domains                                                           *)
(***************************************************************************)
Paths      == {"/src/a.zip", "/src/b.7z"}
SourceTree == Paths \cup {"/data/d.7z.zip"}
InitialDisk ==
    [p \in SourceTree |->
        IF p = "/src/a.zip" THEN 50 ELSE IF p = "/src/b.7z" THEN 2049 ELSE 3000]
                                           \* an ordinary file, two above the cap
FloodWaits == {7, 60}                      \* seconds carried by FloodWaitError
ErrorKinds == {"RPCError", "Exception"}
MessageIds == {101, 102}                   \* ids the transport assigns
DirModes   == {"rw", "erofs", "eacces", "erofs_late", "lingers"}
    \* what the filesystem does at a deletion: "rw" removes the file; "erofs"
    \* is read-only (open and remove fail with errno 30); "eacces" denies
    \* write permission; "erofs_late" turns read-only after the probe, so
    \* that os.remove is what fails with errno 30; "lingers" lets os.remove
    \* return while the path stays visible

VARIABLES
    pc,                    \* control position of the single thread
    DELETE_AFTER_UPLOAD,   \* config flag, fixed for a process
    connected,             \* TelegramUploader.connected
    disk,                  \* filesystem: existing source path -> size
    history_file,          \* [exists, lines]: the upload history log
    files,                 \* list being uploaded / deleted
    i,                     \* 1-based index of the for loop of send_files_batch
    retry_count,           \* argument of the running send_file_with_progress
    last_exc,              \* exception raised by the awaited client.send_file
    sleeping,              \* seconds of the asyncio.sleep in progress
    successful_uploads,
    failed_uploads,        \* list of failed_info entries   
    total_uploaded_bytes,
    results,               \* dictionary returned by send_files_batch
    d,                     \* 1-based index of the loop of delete_files_after_upload
    deleted_count,
    deleted,               \* paths removed by delete_files_after_upload
    run_result,            \* value returned by BackupBot.run
    \* observation of the file being processed
    attempts,              \* calls of client.send_file
    floods,                \* rate-limit signals received
    \* observation of the current batch, one entry per list position
    recs,                  \* lines appended to the history log (header excluded)
    rec_calls,             \* calls of record_upload_history
    notifs,                \* calls of send_error_notification
    outcome,               \* "none", "ok", "fail" (returned False), "exc" (batch handler)
    \* deletion loops (main.delete_files_after_upload, CleanupManager.cleanup_files)
    failed_deletions,
    last_delete,           \* observation: the last deletion attempt and its report
    \* CleanupManager
    mtime,                 \* filesystem: path -> modification time
    upload_history,        \* self.upload_history, as loaded by csv.DictReader
    disk_usage,            \* the last snapshot get_disk_usage returned
    cleanup_needed,        \* what needs_cleanup told run_cleanup: "unchecked", "yes", "no"
    space_to_free_gb,      \* local of get_files_to_cleanup (in MiB)
    cleanup_candidates,    \* local of get_files_to_cleanup, after the sort
    files_to_cleanup,      \* list returned by get_files_to_cleanup
    cleanup_results,       \* dictionary built by cleanup_files / run_cleanup
    called_target_gb,      \* argument of the last get_files_to_cleanup call
    selection_calls,       \* observation: direct calls of get_files_to_cleanup
    \* BackupBot and NetworkMountManager
    sources_file,          \* sources.txt: [exists, lines]
    sources,               \* self.sources: the accessible paths, in file order
    active_mounts,         \* keys of mount_manager.active_mounts
    mount_table,           \* mount points the system has mounted
    acquired,              \* observation: mount points a mount command of the run mounted
    prepared,              \* observation: what became of each line of sources.txt
    unmount_attempts,      \* observation: mount points cleanup_mounts ran umount for
    cleanup_mounts_calls,  \* observation: calls of cleanup_mounts
    exit_path,             \* observation: the way run was left
    exit_status,           \* status of sys.exit in main, -1 while running
    \* what the operator is told, and observations of it
    read_only_filesystems, \* local of delete_files_after_upload (main.py line 219)
    sent,                  \* messages sent to the operator at the end of a run
    kept_read_only,        \* observation: files kept because their source is read-only
    history_read,          \* observation: how load_upload_history ended
    written                \* observation: files record_upload_history wrote as successful

vars == <<pc, DELETE_AFTER_UPLOAD, connected, disk, history_file, files, i,
          retry_count, last_exc, sleeping, successful_uploads, failed_uploads,
          total_uploaded_bytes, results, d, deleted_count,
          deleted, run_result, attempts, floods, recs, rec_calls,
          notifs, outcome, failed_deletions, last_delete, mtime, upload_history,
          disk_usage, cleanup_needed, space_to_free_gb, cleanup_candidates, files_to_cleanup,
          cleanup_results, called_target_gb, selection_calls, sources_file,
          sources, active_mounts, mount_table, acquired, prepared,
          unmount_attempts, cleanup_mounts_calls, exit_path, exit_status,
          read_only_filesystems, sent, kept_read_only, history_read, written>>

batch_vars == <<files, i, retry_count, last_exc, sleeping, successful_uploads,
                failed_uploads, total_uploaded_bytes, results, attempts,
                floods, recs, rec_calls, notifs, outcome>>

run_vars == <<d, deleted_count, deleted, run_result>>

env_vars == <<DELETE_AFTER_UPLOAD, disk>>

del_vars == <<failed_deletions, last_delete>>

cleanup_vars == <<mtime, upload_history, disk_usage, cleanup_needed, space_to_free_gb,
                  cleanup_candidates, files_to_cleanup, cleanup_results,
                  called_target_gb, selection_calls>>

src_vars == <<sources_file, sources, active_mounts, mount_table, acquired,
              prepared, unmount_attempts, cleanup_mounts_calls, exit_path,
              exit_status>>

report_vars == <<read_only_filesystems, sent, kept_read_only>>

obs_vars == <<read_only_filesystems, sent, kept_read_only, history_read, written>>

\* get_disk_usage returned None (line 155), or has not been called
NoUsage == [known |-> FALSE, total |-> 0, used |-> 0, free |-> 0]

NoDelete == [path |-> "", existed |-> FALSE, read_only |-> FALSE,
             reported |-> "none", exists_after |-> FALSE, raised |-> FALSE]

NoSourcesFile == [exists |-> FALSE, lines |-> <<>>]

NoException == [type |-> "none", seconds |-> 0]
NoResults   == [returned |-> FALSE]

(***************************************************************************)
(* file_processor.get_file_info                                            *)
(***************************************************************************)
\* os.path.basename(path)
basename(path) ==
    IF path = "/src/a.zip" THEN "a.zip"
    ELSE IF path = "/src/b.7z" THEN "b.7z"
    ELSE IF path = "/src/c.tar" THEN "c.tar"
    ELSE IF path = "/data/d.7z.zip" THEN "d.7z.zip"
    ELSE IF path = "/src/a,b.zip" THEN "a,b.zip"
    ELSE path

get_file_info(path, size) ==
    [ name         |-> basename(path),
      path         |-> path,
      size_bytes   |-> size,
      size_mb      |-> size,
      is_too_large |-> size > MAX_FILE_SIZE ]

FileInfos == { get_file_info(p, InitialDisk[p]) : p \in Paths }

RECURSIVE SeqsUpTo(_, _)
SeqsUpTo(S, n) ==
    IF n = 0 THEN { <<>> }
    ELSE LET shorter == SeqsUpTo(S, n - 1)
         IN  shorter \cup { Append(q, x) : q \in { r \in shorter : Len(r) = n - 1 }, x \in S }

FileLists == SeqsUpTo(FileInfos, MaxFiles)

(***************************************************************************)
(* TelegramUploader.record_upload_history                                  *)
(***************************************************************************)
HistoryHeader ==
    << "filename", "source_path", "upload_date", "upload_success",
       "file_size_mb", "telegram_message_id" >>

\* a bug: the success column does not follow the outcome
HistoryRow_SuccessAlwaysTrue(file_info, success, message_id) ==
    << file_info.name, file_info.path, "now", "TRUE",
       ToString(file_info.size_mb),
       IF message_id # 0 THEN ToString(message_id) ELSE "" >>

HistoryRow(file_info, success, message_id) ==
    << file_info.name,
       file_info.path,
       "now",
       IF success THEN "TRUE" ELSE "FALSE",
       ToString(IF file_info.size_mb = 0 /\ file_info.size_bytes > 0
                THEN file_info.size_bytes ELSE file_info.size_mb),
       IF message_id # 0 THEN ToString(message_id) ELSE "" >>

\* the pieces of a text between its commas
Pieces(text) ==
    IF text = "a,b.zip" THEN << "a", "b.zip" >>
    ELSE IF text = "/src/a,b.zip" THEN << "/src/a", "b.zip" >>
    ELSE << text >>

\* ','.join(row_data) (line 141), as the cells a csv reader finds in the
\* line: a comma inside a field ends a cell
RECURSIVE csv_line(_)
csv_line(row_data) ==
    IF row_data = <<>> THEN <<>>
    ELSE Pieces(Head(row_data)) \o csv_line(Tail(row_data))

\* a bug: the log is opened for writing instead of appending
record_upload_history_Truncates(log, file_info, success, message_id, write_ok) ==
    IF ~write_ok THEN log
    ELSE [exists |-> TRUE,
          lines  |-> << HistoryHeader, csv_line(HistoryRow(file_info, success, message_id)) >>]

\* The log after the call; write_ok is whether open()/write() succeeded (a
\* PermissionError or any other exception is caught and leaves the log as it was).
record_upload_history(log, file_info, success, message_id, write_ok) ==
    IF ~write_ok THEN log
    ELSE IF ~log.exists
         THEN [exists |-> TRUE,
               lines  |-> << HistoryHeader, csv_line(HistoryRow(file_info, success, message_id)) >>]
         ELSE [exists |-> TRUE,
               lines  |-> Append(log.lines, csv_line(HistoryRow(file_info, success, message_id)))]

\* config.example.py, line 172: the header template of the history log
UPLOAD_HISTORY_HEADER ==
    << "filename", "source_path", "upload_date", "upload_success",
       "file_size_mb", "telegram_message_id", "deleted_after_upload" >>

IsHeader(line)   == line = HistoryHeader
RowSuccess(line) == line[4] = "TRUE"
RowPath(line)    == line[2]

(***************************************************************************)
(* TelegramUploader.get_pause_time                                         *)
(***************************************************************************)
get_pause_time(file_size_mb) ==
    IF file_size_mb > VERY_LARGE_FILE_THRESHOLD THEN PAUSE_VERY_LARGE_FILES
    ELSE IF file_size_mb > LARGE_FILE_THRESHOLD THEN PAUSE_FOR_LARGE_FILES
    ELSE PAUSE_BETWEEN_FILES

\* a bug: the flood wait ignores the seconds the transport asked for
wait_time_Fixed(e) == RETRY_DELAY

\* lines 281-283: wait_time = e.seconds is what asyncio.sleep is given
wait_time(e) == e.seconds

\* a bug: constant instead of linear backoff
RetryDelay_Constant(retries) == RETRY_DELAY

\* lines 288 / 306: retry_delay = RETRY_DELAY * (retry_count + 1)
RetryDelay(retries) == RETRY_DELAY * (retries + 1)

Bump(f, k) == [f EXCEPT ![k] = @ + 1]

RECURSIVE SumSizes(_, _)
SumSizes(list, idxs) ==
    IF idxs = {} THEN 0
    ELSE LET k == CHOOSE x \in idxs : TRUE
         IN  list[k].size_bytes + SumSizes(list, idxs \ {k})


(***************************************************************************)
(* Initial state: a fresh installation (no history log), the uploader just *)
(* constructed (connected = False), source files on disk.                  *)
(***************************************************************************)
InitCommon ==
    /\ DELETE_AFTER_UPLOAD \in BOOLEAN
    /\ connected = FALSE
    /\ history_file = [exists |-> FALSE, lines |-> <<>>]
    /\ files = <<>>
    /\ i = 0
    /\ retry_count = 0
    /\ last_exc = NoException
    /\ sleeping = 0
    /\ successful_uploads = 0
    /\ failed_uploads = <<>>
    /\ total_uploaded_bytes = 0
    /\ results = NoResults
    /\ d = 0
    /\ deleted_count = 0
    /\ deleted = {}
    /\ run_result = "none"
    /\ attempts = 0
    /\ floods = 0
    /\ recs = <<>>
    /\ rec_calls = <<>>
    /\ notifs = <<>>
    /\ outcome = <<>>
    /\ failed_deletions = 0
    /\ last_delete = NoDelete
    /\ mtime = [p \in DOMAIN disk |-> 1]
    /\ upload_history = <<>>
    /\ disk_usage = NoUsage
    /\ cleanup_needed = "unchecked"
    /\ space_to_free_gb = 0
    /\ cleanup_candidates = <<>>
    /\ files_to_cleanup = <<>>
    /\ cleanup_results = NoResults
    /\ called_target_gb = 0
    /\ selection_calls = 0
    /\ sources = <<>>
    /\ active_mounts = {}
    /\ mount_table = {}
    /\ acquired = {}
    /\ prepared = <<>>
    /\ unmount_attempts = {}
    /\ cleanup_mounts_calls = 0
    /\ exit_path = "none"
    /\ exit_status = -1
    /\ read_only_filesystems = {}
    /\ sent = {}
    /\ kept_read_only = {}
    /\ history_read = "none"
    /\ written = {}

(***************************************************************************)
(* TelegramUploader.send_files_batch: entry                                *)
(***************************************************************************)
Zeros(list) == [k \in 1..Len(list) |-> 0]

send_files_batch(list) ==
    /\ files' = list
    /\ retry_count' = 0
    /\ last_exc' = NoException
    /\ sleeping' = 0
    /\ successful_uploads' = 0
    /\ failed_uploads' = <<>>
    /\ total_uploaded_bytes' = 0
    /\ attempts' = 0
    /\ floods' = 0
    /\ recs' = Zeros(list)
    /\ rec_calls' = Zeros(list)
    /\ notifs' = Zeros(list)
    /\ outcome' = [k \in 1..Len(list) |-> "none"]
    /\ IF list = <<>>
       THEN /\ results' = [successful |-> 0, failed |-> 0, total |-> 0]
            /\ i' = 0
            /\ pc' = "batch_return"
       ELSE /\ results' = NoResults
            /\ i' = 1
            /\ pc' = "loop"

(***************************************************************************)
(* send_files_batch: end of one iteration of the for loop, and the result  *)
(* dictionary built after the last one.  Uses the primed counters, so it   *)
(* is conjoined after the conjuncts that set them.                         *)
(***************************************************************************)
BatchResults(succ, failed, bytes) ==
    [ successful           |-> succ,
      failed               |-> Len(failed),
      total                |-> Len(files),
      total_uploaded_bytes |-> bytes,
      failed_uploads       |-> failed ]

\* a bug: the loop is left at the first failed file
EndIteration_StopOnFailure ==
    IF i = Len(files) \/ failed_uploads' # <<>>
    THEN /\ results' = BatchResults(successful_uploads', failed_uploads',
                                    total_uploaded_bytes')
         /\ i' = i
         /\ pc' = "batch_return"
    ELSE /\ results' = results
         /\ i' = i + 1
         /\ pc' = "loop"

EndIteration ==
    IF i = Len(files)
    THEN /\ results' = BatchResults(successful_uploads', failed_uploads',
                                    total_uploaded_bytes')
         /\ i' = i
         /\ pc' = "batch_return"
    ELSE /\ results' = results
         /\ i' = i + 1
         /\ pc' = "loop"

FailedInfo(file_info, error) ==
    [name |-> file_info.name, size_bytes |-> file_info.size_bytes, error |-> error]

\* send_files_batch, lines 368-386: what the loop does with the value
\* returned by send_file_with_progress, then the pause between files.
AfterReturn(ok) ==
    /\ successful_uploads' = IF ok THEN successful_uploads + 1 ELSE successful_uploads
    /\ total_uploaded_bytes' =
           IF ok THEN total_uploaded_bytes + files[i].size_bytes
                 ELSE total_uploaded_bytes
    /\ failed_uploads' =
           IF ok THEN failed_uploads
                 ELSE Append(failed_uploads, FailedInfo(files[i], "Upload failed"))
    /\ outcome' = [outcome EXCEPT ![i] = IF ok THEN "ok" ELSE "fail"]
    /\ IF get_pause_time(files[i].size_mb) > 0
       THEN /\ sleeping' = get_pause_time(files[i].size_mb)
            /\ pc' = "pause"
            /\ i' = i
            /\ results' = results
       ELSE /\ sleeping' = 0
            /\ EndIteration

\* a bug: the outcome is not written when it is reached
RecordHistory_Deferred(success, message_id) ==
    UNCHANGED <<history_file, recs, rec_calls>>

\* One call of record_upload_history for the file at position i.
RecordHistory(success, message_id) ==
    \E write_ok \in BOOLEAN :
        /\ history_file' = record_upload_history(history_file, files[i], success,
                                                 message_id, write_ok)
        /\ recs' = IF write_ok THEN Bump(recs, i) ELSE recs
        /\ rec_calls' = Bump(rec_calls, i)

\* a bug: the size check of lines 185-194 is missing
send_file_with_progress_NoSizeCheck(rc, calls_so_far) ==
    /\ retry_count' = rc
    /\ last_exc' = NoException
    /\ IF ~connected
       THEN /\ AfterReturn(FALSE)
            /\ attempts' = calls_so_far
            /\ UNCHANGED <<history_file, recs, rec_calls, notifs>>
       ELSE /\ attempts' = calls_so_far + 1
            /\ sleeping' = 0
            /\ pc' = "send"
            /\ UNCHANGED <<history_file, recs, rec_calls, notifs, outcome, i, results,
                           successful_uploads, failed_uploads, total_uploaded_bytes>>

(***************************************************************************)
(* TelegramUploader.send_file_with_progress(file_info, rc): from its entry *)
(* to the first suspension point (or to its return).                       *)
(***************************************************************************)
send_file_with_progress(rc, calls_so_far) ==
    /\ retry_count' = rc
    /\ last_exc' = NoException
    /\ IF ~connected
       THEN /\ AfterReturn(FALSE)
            /\ attempts' = calls_so_far
            /\ UNCHANGED <<history_file, recs, rec_calls, notifs>>
       ELSE IF files[i].is_too_large
       THEN /\ RecordHistory(FALSE, 0)
            /\ AfterReturn(FALSE)
            /\ attempts' = calls_so_far
            /\ UNCHANGED notifs
       ELSE /\ attempts' = calls_so_far + 1
            /\ sleeping' = 0
            /\ pc' = "send"
            /\ UNCHANGED <<history_file, recs, rec_calls, notifs, outcome, i, results,
                           successful_uploads, failed_uploads, total_uploaded_bytes>>

\* for loop of send_files_batch: the next file is taken up (lines 346-368)
StartFile ==
    /\ pc = "loop"
    /\ send_file_with_progress(0, 0)
    /\ floods' = 0
    /\ UNCHANGED <<files, connected>>
    /\ UNCHANGED env_vars /\ UNCHANGED run_vars
    /\ UNCHANGED cleanup_vars /\ UNCHANGED src_vars /\ UNCHANGED obs_vars /\ UNCHANGED del_vars

\* a bug: a history write that fails turns the upload into a failed one
SendFileSucceeds_HistoryFailureFails ==
    /\ pc = "send"
    /\ \E message_id \in MessageIds, write_ok \in BOOLEAN :
           /\ history_file' = record_upload_history(history_file, files[i], TRUE,
                                                    message_id, write_ok)
           /\ recs' = IF write_ok THEN Bump(recs, i) ELSE recs
           /\ rec_calls' = Bump(rec_calls, i)
           /\ AfterReturn(write_ok)
    /\ UNCHANGED <<files, floods, attempts, retry_count, last_exc, notifs, connected>>
    /\ UNCHANGED env_vars /\ UNCHANGED run_vars
    /\ UNCHANGED cleanup_vars /\ UNCHANGED src_vars /\ UNCHANGED obs_vars /\ UNCHANGED del_vars

\* client.send_file returns a message: lines 264-278, then 369-386
SendFileSucceeds ==
    /\ pc = "send"
    /\ \E message_id \in MessageIds : RecordHistory(TRUE, message_id)
    /\ AfterReturn(TRUE)
    /\ UNCHANGED <<files, floods, attempts, retry_count, last_exc, notifs, connected>>
    /\ UNCHANGED env_vars /\ UNCHANGED run_vars
    /\ UNCHANGED cleanup_vars /\ UNCHANGED src_vars /\ UNCHANGED obs_vars /\ UNCHANGED del_vars

\* client.send_file raises FloodWaitError: lines 280-283
SendFileFloodWait ==
    /\ pc = "send"
    /\ floods < MaxFlood
    /\ \E seconds \in FloodWaits :
           /\ last_exc' = [type |-> "FloodWaitError", seconds |-> seconds]
           /\ sleeping' = wait_time([type |-> "FloodWaitError", seconds |-> seconds])
    /\ floods' = floods + 1
    /\ pc' = "flood_sleep"
    /\ UNCHANGED <<files, i, retry_count, successful_uploads, failed_uploads,
                   total_uploaded_bytes, results, attempts, recs, rec_calls,
                   notifs, outcome, history_file, connected>>
    /\ UNCHANGED env_vars /\ UNCHANGED run_vars
    /\ UNCHANGED cleanup_vars /\ UNCHANGED src_vars /\ UNCHANGED obs_vars /\ UNCHANGED del_vars

\* a bug: a flood wait uses up one retry
FloodWake_CountsRetry ==
    /\ pc = "flood_sleep"
    /\ send_file_with_progress(retry_count + 1, attempts)
    /\ UNCHANGED <<files, floods, connected>>
    /\ UNCHANGED env_vars /\ UNCHANGED run_vars
    /\ UNCHANGED cleanup_vars /\ UNCHANGED src_vars /\ UNCHANGED obs_vars /\ UNCHANGED del_vars

\* a bug: after the flood wait the coroutine waits again instead of calling
\* itself
FloodWake_WaitsAgain ==
    /\ pc = "flood_sleep"
    /\ sleeping' = wait_time(last_exc)
    /\ UNCHANGED <<pc, history_file, connected>>
    /\ UNCHANGED <<files, i, retry_count, last_exc, successful_uploads,
                   failed_uploads, total_uploaded_bytes, results, attempts,
                   floods, recs, rec_calls, notifs, outcome>>
    /\ UNCHANGED env_vars /\ UNCHANGED run_vars
    /\ UNCHANGED cleanup_vars /\ UNCHANGED src_vars /\ UNCHANGED obs_vars /\ UNCHANGED del_vars

\* the flood wait is over: line 284, the recursive call with the same retry_count
FloodWake ==
    /\ pc = "flood_sleep"
    /\ send_file_with_progress(retry_count, attempts)
    /\ UNCHANGED <<files, floods, connected>>
    /\ UNCHANGED env_vars /\ UNCHANGED run_vars
    /\ UNCHANGED cleanup_vars /\ UNCHANGED src_vars /\ UNCHANGED obs_vars /\ UNCHANGED del_vars

\* client.send_file raises RPCError or another Exception: lines 286-320
SendFileError ==
    /\ pc = "send"
    /\ IF retry_count < MAX_RETRY_ATTEMPTS
       THEN /\ \E kind \in ErrorKinds : last_exc' = [type |-> kind, seconds |-> 0]
            /\ sleeping' = RetryDelay(retry_count)
            /\ pc' = "retry_sleep"
            /\ UNCHANGED <<i, successful_uploads, failed_uploads,
                           total_uploaded_bytes, results, recs, rec_calls, notifs,
                           outcome, history_file>>
       ELSE /\ RecordHistory(FALSE, 0)
            /\ notifs' = Bump(notifs, i)
            /\ AfterReturn(FALSE)
            /\ last_exc' = NoException
    /\ UNCHANGED <<files, floods, attempts, retry_count, connected>>
    /\ UNCHANGED env_vars /\ UNCHANGED run_vars
    /\ UNCHANGED cleanup_vars /\ UNCHANGED src_vars /\ UNCHANGED obs_vars /\ UNCHANGED del_vars

\* the backoff is over: lines 295 / 313, the recursive call with retry_count + 1
RetryWake ==
    /\ pc = "retry_sleep"
    /\ send_file_with_progress(retry_count + 1, attempts)
    /\ UNCHANGED <<files, floods, connected>>
    /\ UNCHANGED env_vars /\ UNCHANGED run_vars
    /\ UNCHANGED cleanup_vars /\ UNCHANGED src_vars /\ UNCHANGED obs_vars /\ UNCHANGED del_vars

\* the pause between files is over: line 386, back to the for loop
PauseDone ==
    /\ pc = "pause"
    /\ sleeping' = 0
    /\ UNCHANGED <<successful_uploads, failed_uploads, total_uploaded_bytes>>
    /\ EndIteration
    /\ UNCHANGED <<files, retry_count, last_exc, attempts, floods, recs, rec_calls,
                   notifs, outcome, history_file, connected>>
    /\ UNCHANGED env_vars /\ UNCHANGED run_vars
    /\ UNCHANGED cleanup_vars /\ UNCHANGED src_vars /\ UNCHANGED obs_vars /\ UNCHANGED del_vars

\* a bug: the file that ends in the handler has been counted as uploaded
BatchLoopError_CountedAsUploaded ==
    /\ pc = "loop"
    /\ failed_uploads' = Append(failed_uploads, FailedInfo(files[i], "exception"))
    /\ RecordHistory(FALSE, 0)
    /\ notifs' = Bump(notifs, i)
    /\ outcome' = [outcome EXCEPT ![i] = "exc"]
    /\ attempts' = 0
    /\ floods' = 0
    /\ retry_count' = 0
    /\ successful_uploads' = successful_uploads + 1
    /\ UNCHANGED total_uploaded_bytes
    /\ EndIteration
    /\ UNCHANGED <<files, last_exc, sleeping, connected>>
    /\ UNCHANGED env_vars /\ UNCHANGED run_vars
    /\ UNCHANGED cleanup_vars /\ UNCHANGED src_vars /\ UNCHANGED obs_vars /\ UNCHANGED del_vars

\* An exception raised in the loop body before the upload of the file has
\* started (lines 349-367) is caught by the handler of lines 388-400, which
\* records the failure and goes on with the next file without pausing.
BatchLoopError ==
    /\ pc = "loop"
    /\ failed_uploads' = Append(failed_uploads, FailedInfo(files[i], "exception"))
    /\ RecordHistory(FALSE, 0)
    /\ notifs' = Bump(notifs, i)
    /\ outcome' = [outcome EXCEPT ![i] = "exc"]
    /\ attempts' = 0
    /\ floods' = 0
    /\ retry_count' = 0
    /\ UNCHANGED <<successful_uploads, total_uploaded_bytes>>
    /\ EndIteration
    /\ UNCHANGED <<files, last_exc, sleeping, connected>>
    /\ UNCHANGED env_vars /\ UNCHANGED run_vars
    /\ UNCHANGED cleanup_vars /\ UNCHANGED src_vars /\ UNCHANGED obs_vars /\ UNCHANGED del_vars

BatchStep ==
    \/ StartFile
    \/ SendFileSucceeds
    \/ SendFileFloodWait
    \/ FloodWake
    \/ SendFileError
    \/ RetryWake
    \/ PauseDone
    \/ BatchLoopError

(***************************************************************************)
(* The uploader used on its own: construct, initialize (may fail), call    *)
(* send_files_batch on any list; then a new process does the same on the   *)
(* log the earlier ones left.                                              *)
(***************************************************************************)
InitUploader ==
    /\ pc = "uploader_new"
    /\ disk = InitialDisk
    /\ InitCommon
    /\ sources_file = NoSourcesFile
    /\ DELETE_AFTER_UPLOAD = TRUE      \* not read by the uploader

\* TelegramUploader.initialize: lines 34-63
Initialize ==
    /\ pc = "uploader_new"
    /\ \E ok \in BOOLEAN : connected' = ok
    /\ pc' = "uploader_ready"
    /\ UNCHANGED history_file
    /\ UNCHANGED batch_vars /\ UNCHANGED env_vars /\ UNCHANGED run_vars
    /\ UNCHANGED cleanup_vars /\ UNCHANGED src_vars /\ UNCHANGED obs_vars /\ UNCHANGED del_vars

CallSendFilesBatch ==
    /\ pc = "uploader_ready"
    /\ \E list \in FileLists : send_files_batch(list)
    /\ UNCHANGED <<history_file, connected>>
    /\ UNCHANGED env_vars /\ UNCHANGED run_vars
    /\ UNCHANGED cleanup_vars /\ UNCHANGED src_vars /\ UNCHANGED obs_vars /\ UNCHANGED del_vars

NextUploader ==
    \/ Initialize
    \/ CallSendFilesBatch
    \/ BatchStep

SpecUploader == InitUploader /\ [][NextUploader]_vars

\* The event loop resumes the coroutine: a sleep ends, and an awaited
\* client.send_file returns or raises.  The transport raises the rate limit
\* at most MaxFlood times per file.
LiveUploader == InitUploader /\ [][NextUploader]_vars /\ WF_vars(BatchStep)

(***************************************************************************)
(* record_upload_history called any number of times, by one process or by  *)
(* several in a row: the function reads nothing but the log itself.        *)
(***************************************************************************)
InitHistory ==
    /\ pc = "history"
    /\ disk = InitialDisk
    /\ InitCommon
    /\ sources_file = NoSourcesFile
    /\ DELETE_AFTER_UPLOAD = TRUE

RecordCall ==
    /\ pc = "history"
    /\ Len(history_file.lines) <= MaxLog
    /\ \E file_info \in FileInfos, success \in BOOLEAN,
          message_id \in MessageIds \cup {0}, write_ok \in BOOLEAN :
           history_file' = record_upload_history(history_file, file_info, success,
                                                 message_id, write_ok)
    /\ UNCHANGED <<pc, connected>>
    /\ UNCHANGED batch_vars /\ UNCHANGED env_vars /\ UNCHANGED run_vars
    /\ UNCHANGED cleanup_vars /\ UNCHANGED src_vars /\ UNCHANGED obs_vars /\ UNCHANGED del_vars

SpecHistory == InitHistory /\ [][RecordCall]_vars

(***************************************************************************)
(* cleanup_manager.CleanupManager.delete_file_after_upload: the value it   *)
(* returns for a file whose directory is in state mode, and the filesystem *)
(* it leaves.                                                              *)
(***************************************************************************)
RemoveFile(fs, path) == [p \in (DOMAIN fs) \ {path} |-> fs[p]]

\* the filesystem after a call of os.remove(path) on an existing file
os_remove(fs, path, mode) == IF mode = "rw" THEN RemoveFile(fs, path) ELSE fs

\* the directory of a file, os.path.dirname(path)
dirname(path) == IF path = "/data/d.7z.zip" THEN "/data" ELSE "/src"

\* the marker file of the write probe (line 61)
test_path(path) ==
    IF dirname(path) = "/data" THEN "/data/.write_test" ELSE "/src/.write_test"

\* lines 59-73: the probe opens the marker for writing and removes it; on a
\* read-only filesystem or without permission the open fails
write_probe(fs, path, mode) ==
    IF mode \in {"erofs", "eacces"} THEN fs ELSE RemoveFile(fs, test_path(path))

\* a bug: the deletion is not verified
delete_file_after_upload_NoVerify(file_info, mode) ==
    IF ~DELETE_AFTER_UPLOAD \/ file_info.path \notin DOMAIN disk
       \/ mode \in {"erofs", "eacces"}
    THEN [result |-> FALSE, disk |-> disk]
    ELSE IF mode = "erofs_late"
    THEN [result |-> FALSE,
          disk |-> os_remove(write_probe(disk, file_info.path, mode), file_info.path, mode)]
    ELSE [result |-> TRUE,
          disk |-> os_remove(write_probe(disk, file_info.path, mode), file_info.path, mode)]

delete_file_after_upload(file_info, mode) ==
    IF ~DELETE_AFTER_UPLOAD                          \* lines 44-46
    THEN [result |-> FALSE, disk |-> disk]
    ELSE IF file_info.path \notin DOMAIN disk        \* lines 54-56
    THEN [result |-> FALSE, disk |-> disk]
    ELSE IF mode = "erofs"                           \* probe fails read-only, 67-71
    THEN [result |-> FALSE, disk |-> disk]
    ELSE IF mode = "eacces"                          \* os.access says no, 95-98
    THEN [result |-> FALSE, disk |-> disk]
    ELSE LET probed == write_probe(disk, file_info.path, mode)
             after  == os_remove(probed, file_info.path, mode)  \* line 105
         IN  IF mode = "erofs_late"                  \* errno 30, lines 107-111
             THEN [result |-> FALSE, disk |-> after]
             ELSE IF file_info.path \in DOMAIN after \* still exists, 116-118
             THEN [result |-> FALSE, disk |-> after]
             ELSE [result |-> TRUE, disk |-> after]  \* lines 119-121

\* a deletion attempt met a read-only filesystem
ReadOnly(mode) == mode \in {"erofs", "erofs_late"}

\* os.access(file_dir, os.W_OK) after the attempt (main.py line 231)
DirWritable(mode) == mode \in {"rw", "lingers"}

(***************************************************************************)
(* file_processor.FileProcessor: discovery                                 *)
(***************************************************************************)
MaxSources == 2        \* most lines of sources.txt

\* FILE_EXTENSIONS (config.example.py line 25); a pattern and a file name
\* are written as their parts between the dots
FILE_EXTENSIONS ==
    << <<"*", "7z">>, <<"*", "7z", "*">>, <<"*", "zip">>, <<"*", "tar", "gz">>,
       <<"*", "tar">>, <<"*", "sql">>, <<"*", "dump">> >>

\* os.path.basename of the files of the model, split at the dots
NameParts(path) ==
    IF path = "/src/a.zip" THEN <<"a", "zip">>
    ELSE IF path = "/src/b.7z" THEN <<"b", "7z">>
    ELSE IF path = "/src/c.tar" THEN <<"c", "tar">>
    ELSE <<"d", "7z", "zip">>                    \* /data/d.7z.zip

\* the directories a file is below
ParentDirs(path) ==
    IF path = "/data/d.7z.zip" THEN {"/data"} ELSE {"/src"}

\* fnmatch of a file name against one pattern: "*" matches any text, dots
\* included, so "*.x" asks for the last part and "*.x.*" for an inner part
fnmatch(parts, pattern) ==
    IF pattern[Len(pattern)] = "*"
    THEN \E k \in 2..(Len(parts) - 1) : parts[k] = pattern[2]
    ELSE /\ Len(parts) >= Len(pattern)
         /\ \A k \in 2..Len(pattern) :
                parts[Len(parts) - Len(pattern) + k] = pattern[k]

\* glob.glob(source_path/**/extension, recursive=True) (line 75): the
\* regular files below the source whose name matches
glob(fs, source_path, extension) ==
    { p \in DOMAIN fs : source_path \in ParentDirs(p) /\ fnmatch(NameParts(p), extension) }

\* the matches of one pattern in the order glob returns them
RECURSIVE Listing(_)
Listing(paths) ==
    IF paths = {} THEN <<>>
    ELSE LET p == CHOOSE q \in paths : TRUE
         IN  <<p>> \o Listing(paths \ {p})

\* list.sort(key = size_bytes) (line 89) is stable
InsertBySize(sorted, x) ==
    LET k == Cardinality({ j \in 1..Len(sorted) : sorted[j].size_bytes <= x.size_bytes })
    IN  SubSeq(sorted, 1, k) \o <<x>> \o SubSeq(sorted, k + 1, Len(sorted))

RECURSIVE SortBySize(_)
SortBySize(list) ==
    IF list = <<>> THEN <<>>
    ELSE InsertBySize(SortBySize(SubSeq(list, 1, Len(list) - 1)), list[Len(list)])

\* lines 64-86: one file record per match of every pattern, in pattern order
RECURSIVE FoundFiles(_, _, _)
FoundFiles(fs, source_path, n) ==
    IF n = 0 THEN <<>>
    ELSE LET files_n == Listing(glob(fs, source_path, FILE_EXTENSIONS[n]))
         IN  FoundFiles(fs, source_path, n - 1) \o
             [k \in 1..Len(files_n) |-> get_file_info(files_n[k], fs[files_n[k]])]

\* find_files_in_source (lines 55-96)
find_files_in_source(fs, source_path) ==
    SortBySize(FoundFiles(fs, source_path, Len(FILE_EXTENSIONS)))

\* discover_files_from_sources (lines 98-130): the lists of the sources,
\* one after the other
RECURSIVE discover_files_from_sources(_, _)
discover_files_from_sources(fs, source_list) ==
    IF source_list = <<>> THEN <<>>
    ELSE discover_files_from_sources(fs, SubSeq(source_list, 1, Len(source_list) - 1))
         \o find_files_in_source(fs, source_list[Len(source_list)])

(***************************************************************************)
(* network_mount.NetworkMountManager.  A line of sources.txt is written as *)
(* its parts between the "|" separators.                                   *)
(***************************************************************************)
\* the lines sources.txt can hold: path|username|password|mount_point
SourceLines ==
    { <<"/src">>, <<"/data">>,                   \* local directories
      <<"/gone">>,                               \* a local path that is not there
      <<"//nas/share", "", "", "/media/nas">>,   \* guest share, own mount point
      <<"//nas/share", "backup", "secret">>,     \* share with credentials
      <<"ftp://nas/share">> }                    \* neither local nor a share

ExistingDirs == {"/src", "/data"}

SourcesFiles ==
    { [exists |-> FALSE, lines |-> <<>>] }
        \cup { [exists |-> TRUE, lines |-> lines] : lines \in SeqsUpTo(SourceLines, MaxSources) }

\* what the mount commands do for one share: the first command succeeds,
\* only a command of try_alternative_mount_versions does, or none does;
\* and whether umount (gentle or lazy) succeeds for a mount point
MountOutcomes == {"ok", "alt_ok", "fail"}

NoMounts == [active_mounts |-> {}, mount_table |-> {}, acquired |-> {}]

\* parse_source_line (lines 24-35)
parse_source_line(line) ==
    [ path        |-> IF Len(line) > 0 THEN line[1] ELSE "",
      username    |-> IF Len(line) > 1 THEN line[2] ELSE "",
      password    |-> IF Len(line) > 2 THEN line[3] ELSE "",
      mount_point |-> IF Len(line) > 3 THEN line[4] ELSE "" ]

\* is_windows_network_path (lines 37-39) and is_local_path (lines 41-43)
\* for the paths of SourceLines
is_windows_network_path(path) == path \in {"//nas/share"}
is_local_path(path) == path \in {"/src", "/data", "/gone"}

\* lines 49-52: the mount point made from the share's path
DefaultMountPoint(windows_path) == "/mnt/telegram_backup/nas_share"

\* the mount points directly below mount_base (os.listdir, line 309)
UnderMountBase(mount_point) == mount_point = "/mnt/telegram_backup/nas_share"

\* unmount_share (lines 251-292) for a mount point, umount succeeding or not
unmount_share(m, mount_point, umount_ok) ==
    IF mount_point \notin m.mount_table THEN [result |-> TRUE, mounts |-> m]
    ELSE IF umount_ok
         THEN [result |-> TRUE,
               mounts |-> [m EXCEPT !.active_mounts = @ \ {mount_point},
                                     !.mount_table = @ \ {mount_point}]]
         ELSE [result |-> FALSE, mounts |-> m]

\* try_alternative_mount_versions (lines 132-172) when one of its mount
\* commands succeeds: the share is mounted, then the entry for active_mounts
\* is built from credentials[1].split('=')[1], which is an IndexError for
\* the guest credentials ['-o', 'guest']; the handler goes on to the next
\* version and in the end None is returned
try_alternative_mount_versions(m, mount_point, username) ==
    LET mounted == [m EXCEPT !.mount_table = @ \cup {mount_point},
                             !.acquired = @ \cup {mount_point}]
    IN  IF username # ""
        THEN [path |-> mount_point,
              mounts |-> [mounted EXCEPT !.active_mounts = @ \cup {mount_point}]]
        ELSE [path |-> "", mounts |-> mounted]

\* mount_windows_share (lines 45-130); path "" stands for None
mount_windows_share(m, windows_path, username, mount_point_arg, mounting, umount_ok) ==
    LET mount_point == IF mount_point_arg = "" THEN DefaultMountPoint(windows_path)
                                               ELSE mount_point_arg
        freed == IF mount_point \in m.mount_table
                 THEN unmount_share(m, mount_point, umount_ok)
                 ELSE [result |-> TRUE, mounts |-> m]
        m1    == freed.mounts
    IN  IF mount_point \in m.mount_table /\ mount_point \in m.active_mounts
        THEN [path |-> mount_point, mounts |-> m]            \* lines 58-67
        ELSE IF ~freed.result THEN [path |-> "", mounts |-> m]
        ELSE IF mounting = "ok"                               \* lines 106-123
        THEN [path |-> mount_point,
              mounts |-> [m1 EXCEPT !.active_mounts = @ \cup {mount_point},
                                    !.mount_table = @ \cup {mount_point},
                                    !.acquired = @ \cup {mount_point}]]
        ELSE IF mounting = "alt_ok"                           \* lines 124-127
        THEN try_alternative_mount_versions(m1, mount_point, username)
        ELSE [path |-> "", mounts |-> m1]

\* prepare_source (lines 213-249); path "" stands for None
prepare_source(m, line, mounting, umount_ok) ==
    LET parsed == parse_source_line(line)
    IN  IF parsed.path = "" THEN [path |-> "", mounts |-> m]
        ELSE IF is_local_path(parsed.path)
        THEN [path |-> IF parsed.path \in ExistingDirs THEN parsed.path ELSE "",
              mounts |-> m]
        ELSE IF is_windows_network_path(parsed.path)
        THEN mount_windows_share(m, parsed.path, parsed.username,
                                 parsed.mount_point, mounting, umount_ok)
        ELSE [path |-> "", mounts |-> m]

\* the first loop of cleanup_mounts (lines 299-304) over the keys it listed
RECURSIVE UnmountAll(_, _, _)
UnmountAll(m, mount_points, umount_ok) ==
    IF mount_points = {} THEN m
    ELSE LET mp == CHOOSE q \in mount_points : TRUE
         IN  UnmountAll(unmount_share(m, mp, umount_ok[mp]).mounts,
                        mount_points \ {mp}, umount_ok)

\* cleanup_mounts (lines 294-317): the script's own mounts, then whatever is
\* still mounted below mount_base; attempted are the mount points umount
\* was run for
cleanup_mounts(m, umount_ok) ==
    LET own     == m.active_mounts
        m1      == UnmountAll(m, own, umount_ok)
        orphans == { mp \in m1.mount_table : UnderMountBase(mp) }
    IN  [mounts    |-> UnmountAll(m1, orphans, umount_ok),
         attempted |-> (own \cap m.mount_table) \cup orphans]

(***************************************************************************)
(* BackupBot.run and main                                                  *)
(***************************************************************************)
\* the files below the source directories: all of them, or a.zip alone
Trees == { SourceTree, {"/src/a.zip"} }

Init ==
    /\ pc = "run_load"
    /\ \E tree \in Trees : disk = [p \in tree |-> InitialDisk[p]]
    /\ InitCommon
    /\ sources_file \in SourcesFiles

\* a list delete_files_after_upload can be called with for the files on disk
DiscoveredLists ==
    { list \in FileLists :
        \A k \in 1..Len(list) :
            /\ list[k].path \in DOMAIN disk
            /\ list[k] = get_file_info(list[k].path, disk[list[k].path]) }

\* a bug: the first source that cannot be prepared ends the loop
RECURSIVE PrepareAll_StopsAtFailure(_, _, _)
PrepareAll_StopsAtFailure(lines, outcomes, umount_ok) ==
    IF lines = <<>>
    THEN [prepared_sources |-> <<>>, mounts |-> NoMounts, results |-> <<>>]
    ELSE LET n      == Len(lines)
             before == PrepareAll_StopsAtFailure(SubSeq(lines, 1, n - 1), outcomes,
                                                 umount_ok)
             parsed == parse_source_line(lines[n])
             source == prepare_source(before.mounts, lines[n], outcomes[n], umount_ok[n])
         IN  IF \E k \in 1..(n - 1) : before.results[k] = "failed" THEN
                 [before EXCEPT !.results = Append(@, "skipped")]
             ELSE IF parsed.path = "" THEN
                 [before EXCEPT !.results = Append(@, "invalid")]
             ELSE IF source.path # "" THEN
                 [prepared_sources |-> Append(before.prepared_sources, source.path),
                  mounts           |-> source.mounts,
                  results          |-> Append(before.results, "prepared")]
             ELSE
                 [prepared_sources |-> before.prepared_sources,
                  mounts           |-> source.mounts,
                  results          |-> Append(before.results, "failed")]

\* the for loop of load_and_prepare_sources (lines 54-68) over the lines,
\* with what the mount and umount commands do for each line
RECURSIVE PrepareAll(_, _, _)
PrepareAll(lines, outcomes, umount_ok) ==
    IF lines = <<>>
    THEN [prepared_sources |-> <<>>, mounts |-> NoMounts, results |-> <<>>]
    ELSE LET n      == Len(lines)
             before == PrepareAll(SubSeq(lines, 1, n - 1), outcomes, umount_ok)
             parsed == parse_source_line(lines[n])
             source == prepare_source(before.mounts, lines[n], outcomes[n], umount_ok[n])
         IN  IF parsed.path = "" THEN                          \* lines 57-59
                 [before EXCEPT !.results = Append(@, "invalid")]
             ELSE IF source.path # "" THEN                     \* lines 62-66
                 [prepared_sources |-> Append(before.prepared_sources, source.path),
                  mounts           |-> source.mounts,
                  results          |-> Append(before.results, "prepared")]
             ELSE                                              \* lines 67-68
                 [prepared_sources |-> before.prepared_sources,
                  mounts           |-> source.mounts,
                  results          |-> Append(before.results, "failed")]

\* load_and_prepare_sources (lines 33-76): ok is the value it returns
load_and_prepare_sources(file, outcomes, umount_ok) ==
    LET all == PrepareAll(file.lines, outcomes, umount_ok)
    IN  IF ~file.exists \/ file.lines = <<>>                   \* lines 36-48
        THEN [ok |-> FALSE, prepared_sources |-> <<>>, mounts |-> NoMounts,
              results |-> <<>>]
        ELSE [ok               |-> Len(all.prepared_sources) > 0,   \* line 72
              prepared_sources |-> all.prepared_sources,
              mounts           |-> all.mounts,
              results          |-> all.results]

\* run, step 1 (lines 316-325); after a failure the client is initialised
\* for the notification only and disconnected again
LoadSources ==
    /\ pc = "run_load"
    /\ \E outcomes \in [1..Len(sources_file.lines) -> MountOutcomes],
          umount_ok \in [1..Len(sources_file.lines) -> BOOLEAN] :
           LET loaded == load_and_prepare_sources(sources_file, outcomes, umount_ok)
           IN  /\ sources' = loaded.prepared_sources
               /\ active_mounts' = loaded.mounts.active_mounts
               /\ mount_table' = loaded.mounts.mount_table
               /\ acquired' = loaded.mounts.acquired
               /\ prepared' = loaded.results
               /\ IF loaded.ok
                  THEN /\ pc' = "run_init"
                       /\ run_result' = run_result
                       /\ exit_path' = exit_path
                  ELSE /\ pc' = "run_finally"
                       /\ run_result' = "False"
                       /\ exit_path' = "load_failed"
    /\ UNCHANGED <<connected, history_file, d, deleted_count, deleted,
                   sources_file, unmount_attempts, cleanup_mounts_calls,
                   exit_status>>
    /\ UNCHANGED batch_vars /\ UNCHANGED env_vars
    /\ UNCHANGED cleanup_vars /\ UNCHANGED del_vars
    /\ UNCHANGED obs_vars

\* run, step 2 (lines 327-331)
InitializeClient ==
    /\ pc = "run_init"
    /\ \E ok \in BOOLEAN :
           /\ connected' = ok
           /\ IF ok THEN /\ pc' = "run_discover"
                         /\ run_result' = run_result
                         /\ exit_path' = exit_path
                    ELSE /\ pc' = "run_finally"
                         /\ run_result' = "False"
                         /\ exit_path' = "init_failed"
    /\ UNCHANGED <<history_file, d, deleted_count, deleted>>
    /\ UNCHANGED batch_vars /\ UNCHANGED env_vars
    /\ UNCHANGED cleanup_vars /\ UNCHANGED del_vars
    /\ UNCHANGED <<sources_file, sources, active_mounts, mount_table, acquired,
                   prepared, unmount_attempts, cleanup_mounts_calls, exit_status>>
    /\ UNCHANGED obs_vars

\* run, steps 3-5 (lines 333-353): discovery, then send_files_batch is entered
DiscoverAndUpload ==
    /\ pc = "run_discover"
    /\ LET list == discover_files_from_sources(disk, sources)
       IN  IF list = <<>>
           THEN /\ pc' = "run_finally"                       \* lines 337-341
                /\ run_result' = "True"
                /\ exit_path' = "no_files"
                /\ connected' = FALSE
                /\ UNCHANGED batch_vars
           ELSE /\ send_files_batch(list)
                /\ run_result' = run_result
                /\ exit_path' = exit_path
                /\ connected' = connected
    /\ UNCHANGED <<history_file, d, deleted_count, deleted>>
    /\ UNCHANGED env_vars
    /\ UNCHANGED cleanup_vars /\ UNCHANGED del_vars
    /\ UNCHANGED <<sources_file, sources, active_mounts, mount_table, acquired,
                   prepared, unmount_attempts, cleanup_mounts_calls, exit_status>>
    /\ UNCHANGED obs_vars

\* run, step 5.1 (line 357): delete_files_after_upload(files) is entered
\* (main.py lines 211-220)
StartDeletion ==
    /\ pc = "batch_return"
    /\ deleted_count' = 0
    /\ failed_deletions' = 0
    /\ last_delete' = last_delete
    /\ IF ~DELETE_AFTER_UPLOAD
       THEN /\ pc' = "run_complete"
            /\ d' = 0
       ELSE /\ pc' = "run_delete"
            /\ d' = 1
    /\ read_only_filesystems' = {}
    /\ UNCHANGED <<connected, history_file, deleted, run_result>>
    /\ UNCHANGED batch_vars /\ UNCHANGED env_vars
    /\ UNCHANGED cleanup_vars /\ UNCHANGED src_vars
    /\ UNCHANGED <<sent, kept_read_only, history_read, written>>

\* one iteration of the loop of delete_files_after_upload (lines 222-233);
\* the last one is followed by the notice of lines 247-256
DeleteOne ==
    /\ pc = "run_delete"
    /\ \E mode \in DirModes :
           LET call   == delete_file_after_upload(files[d], mode)
               result == call.result
           IN  /\ disk' = call.disk
               /\ deleted' = IF result THEN deleted \cup {files[d].path} ELSE deleted
               /\ deleted_count' = IF result THEN deleted_count + 1 ELSE deleted_count
               /\ failed_deletions' = IF result THEN failed_deletions
                                                ELSE failed_deletions + 1
               /\ last_delete' =
                      [ path         |-> files[d].path,
                        existed      |-> files[d].path \in DOMAIN disk,
                        read_only    |-> files[d].path \in DOMAIN disk /\ ReadOnly(mode),
                        reported     |-> IF result THEN "deleted" ELSE "kept",
                        exists_after |-> files[d].path \in DOMAIN disk',
                        raised       |-> FALSE ]
               /\ read_only_filesystems' =
                      IF ~result /\ ~DirWritable(mode)
                      THEN read_only_filesystems \cup {dirname(files[d].path)}
                      ELSE read_only_filesystems
               /\ kept_read_only' =
                      IF ~result /\ files[d].path \in DOMAIN disk /\ ReadOnly(mode)
                      THEN kept_read_only \cup {files[d].path}
                      ELSE kept_read_only
    /\ IF d = Len(files)
       THEN /\ pc' = "run_complete"
            /\ d' = d
            /\ sent' = IF read_only_filesystems' # {}
                       THEN sent \cup {"read_only_notice"} ELSE sent
       ELSE /\ pc' = "run_delete"
            /\ d' = d + 1
            /\ sent' = sent
    /\ UNCHANGED <<connected, history_file, run_result, DELETE_AFTER_UPLOAD>>
    /\ UNCHANGED batch_vars
    /\ UNCHANGED cleanup_vars /\ UNCHANGED src_vars
    /\ UNCHANGED <<history_read, written>>

\* send_completion_message (lines 260-306): the parts of the final report
send_completion_message(upload_results, deleted_files) ==
    {"completion"} \cup
    (IF /\ DELETE_AFTER_UPLOAD                                  \* line 266
        /\ deleted_files < upload_results.total                 \* line 272
        /\ upload_results.successful > 0
     THEN {"kept_note"} ELSE {})

\* run, step 6 and the return value (lines 358-369)
Complete ==
    /\ pc = "run_complete"
    /\ sent' = sent \cup send_completion_message(results, deleted_count)
    /\ run_result' = IF results.failed = 0 THEN "True" ELSE "False"
    /\ exit_path' = "completed"
    /\ pc' = "run_finally"
    /\ UNCHANGED <<connected, history_file, d, deleted_count, deleted>>
    /\ UNCHANGED batch_vars /\ UNCHANGED env_vars
    /\ UNCHANGED cleanup_vars /\ UNCHANGED del_vars
    /\ UNCHANGED <<sources_file, sources, active_mounts, mount_table, acquired,
                   prepared, unmount_attempts, cleanup_mounts_calls, exit_status>>
    /\ UNCHANGED <<read_only_filesystems, kept_read_only, history_read, written>>

\* the except clause of run (lines 371-378): an exception leaves a step
\* that is not inside send_files_batch, which has a handler of its own
FatalError ==
    /\ pc \in {"run_discover", "run_complete"}
    /\ run_result' = "False"
    /\ exit_path' = "fatal"
    /\ pc' = "run_finally"
    /\ UNCHANGED <<connected, history_file, d, deleted_count, deleted>>
    /\ UNCHANGED batch_vars /\ UNCHANGED env_vars
    /\ UNCHANGED cleanup_vars /\ UNCHANGED del_vars
    /\ UNCHANGED <<sources_file, sources, active_mounts, mount_table, acquired,
                   prepared, unmount_attempts, cleanup_mounts_calls, exit_status>>
    /\ UNCHANGED obs_vars

\* the finally clause of run (lines 380-384): cleanup_mounts, disconnect
Finally ==
    /\ pc = "run_finally"
    /\ \E umount_ok \in [{"/media/nas", "/mnt/telegram_backup/nas_share"} -> BOOLEAN] :
           LET cleaned == cleanup_mounts(
                              [active_mounts |-> active_mounts,
                               mount_table |-> mount_table, acquired |-> acquired],
                              umount_ok)
           IN  /\ active_mounts' = cleaned.mounts.active_mounts
               /\ mount_table' = cleaned.mounts.mount_table
               /\ unmount_attempts' = unmount_attempts \cup cleaned.attempted
    /\ cleanup_mounts_calls' = cleanup_mounts_calls + 1
    /\ connected' = FALSE
    /\ pc' = "run_returned"
    /\ UNCHANGED <<history_file, d, deleted_count, deleted, run_result>>
    /\ UNCHANGED batch_vars /\ UNCHANGED env_vars
    /\ UNCHANGED cleanup_vars /\ UNCHANGED del_vars
    /\ UNCHANGED <<sources_file, sources, acquired, prepared, exit_status, exit_path>>
    /\ UNCHANGED obs_vars

\* a bug: the status is 0 whatever run returned
MainExit_AlwaysZero ==
    /\ pc = "run_returned"
    /\ exit_status' = 0
    /\ pc' = "exit"
    /\ UNCHANGED <<connected, history_file>>
    /\ UNCHANGED run_vars /\ UNCHANGED batch_vars /\ UNCHANGED env_vars
    /\ UNCHANGED cleanup_vars /\ UNCHANGED del_vars
    /\ UNCHANGED <<sources_file, sources, active_mounts, mount_table, acquired,
                   prepared, unmount_attempts, cleanup_mounts_calls, exit_path>>
    /\ UNCHANGED obs_vars

\* main (lines 406-410): sys.exit(0 if success else 1)
MainExit ==
    /\ pc = "run_returned"
    /\ exit_status' = IF run_result = "True" THEN 0 ELSE 1
    /\ pc' = "exit"
    /\ UNCHANGED <<connected, history_file>>
    /\ UNCHANGED run_vars /\ UNCHANGED batch_vars /\ UNCHANGED env_vars
    /\ UNCHANGED cleanup_vars /\ UNCHANGED del_vars
    /\ UNCHANGED <<sources_file, sources, active_mounts, mount_table, acquired,
                   prepared, unmount_attempts, cleanup_mounts_calls, exit_path>>
    /\ UNCHANGED obs_vars

Next ==
    \/ LoadSources
    \/ InitializeClient
    \/ DiscoverAndUpload
    \/ BatchStep
    \/ StartDeletion
    \/ DeleteOne
    \/ Complete
    \/ FatalError
    \/ Finally
    \/ MainExit

Spec == Init /\ [][Next]_vars

(***************************************************************************)
(* cleanup_manager.CleanupManager: the disk-space cleanup engine.  It runs *)
(* as a process of its own (main() of cleanup_manager.py) on the history   *)
(* log that earlier upload runs have written.  Sizes and free space are    *)
(* counted in MiB, so a size in GB is the number times GiB.                *)
(***************************************************************************)
MaxHist == 3           \* most rows in the history log a cleanup run starts from

GiB == 1024            \* 1024**3 bytes, in MiB

\* defaults of needs_cleanup (line 157) and run_cleanup (line 307)
DEFAULT_THRESHOLD_GB  == 10
DEFAULT_USAGE_PERCENT == 90
DEFAULT_TARGET_FREE_GB == 50

CleanupPaths == {"/src/a.zip", "/src/b.7z", "/src/c.tar"}

\* sizes now on disk: 1 GB, 2 GB, 3 GB
CleanupDisk ==
    [p \in CleanupPaths |->
        IF p = "/src/a.zip" THEN 1 * GiB
        ELSE IF p = "/src/b.7z" THEN 2 * GiB ELSE 3 * GiB]

\* size a file had when it was uploaded (c.tar has grown since)
UploadedSize(p) ==
    IF CleanupDisk[p] > MAX_FILE_SIZE THEN MAX_FILE_SIZE ELSE CleanupDisk[p]

\* modification times: a.zip oldest and the other two equal, or the reverse
\* order with all three distinct
MTimes ==
    { [p \in CleanupPaths |-> IF p = "/src/a.zip" THEN 1 ELSE 2],
      [p \in CleanupPaths |->
          IF p = "/src/a.zip" THEN 3 ELSE IF p = "/src/b.7z" THEN 2 ELSE 1] }

Usage(total_gb, used_gb_x2, free_gb_x2) ==
    [known |-> TRUE, total |-> total_gb * GiB,
     used |-> (used_gb_x2 * GiB) \div 2, free |-> (free_gb_x2 * GiB) \div 2]

\* snapshots shutil.disk_usage('/') can give, and None
DiskUsages ==
    { NoUsage,
      Usage(100, 180, 20),      \* 10 GB free, 90% used: both at the threshold
      Usage(100, 190, 10),      \* 5 GB free, 95% used
      Usage(500, 905, 95),      \* 47.5 GB free, 90.5% used
      Usage(1000, 1840, 160) }  \* 80 GB free, 92% used

\* get_disk_usage (lines 143-155) reads the live filesystem at every call
get_disk_usage == DiskUsages

\* a bug: the comparisons are not strict
needs_cleanup_NotStrict(usage, threshold_gb, usage_percent) ==
    IF ~usage.known THEN TRUE
    ELSE \/ usage.free <= threshold_gb * GiB
         \/ usage.used * 100 >= usage_percent * usage.total

\* needs_cleanup (lines 157-173) on the snapshot it has read;
\* usage_percent = used / total * 100
needs_cleanup(usage, threshold_gb, usage_percent) ==
    IF ~usage.known THEN TRUE
    ELSE \/ usage.free < threshold_gb * GiB
         \/ usage.used * 100 > usage_percent * usage.total

\* csv.DictReader: the first line gives the field names, every later line
\* is a dictionary from the field names to its values (of two columns with
\* the same name the later one is kept)
DictRow(fieldnames, row) ==
    [f \in {fieldnames[k] : k \in 1..Len(fieldnames)} |->
        LET k == CHOOSE k \in 1..Len(fieldnames) :
                     /\ fieldnames[k] = f
                     /\ \A j \in 1..Len(fieldnames) : fieldnames[j] = f => j <= k
        IN  IF k <= Len(row) THEN row[k] ELSE ""]

\* load_upload_history (lines 23-38)
load_upload_history(log, read_ok) ==
    IF ~log.exists \/ ~read_ok \/ log.lines = <<>> THEN <<>>
    ELSE [j \in 1..(Len(log.lines) - 1) |-> DictRow(log.lines[1], log.lines[j + 1])]

Lower(str) == IF str \in {"TRUE", "True", "true"} THEN "true" ELSE str

\* a bug: records of failed uploads are taken too
get_successful_uploads_All(history) == history

\* get_successful_uploads (lines 138-141)
get_successful_uploads(history) ==
    SelectSeq(history, LAMBDA record :
        "upload_success" \in DOMAIN record /\ Lower(record["upload_success"]) = "true")

\* lines 204-229: one candidate per successful record whose file exists
Candidates(successful, fs, mt) ==
    LET present == SelectSeq(successful, LAMBDA record :
                       "source_path" \in DOMAIN record
                       /\ record["source_path"] \in DOMAIN fs)
    IN  [j \in 1..Len(present) |->
            [ path              |-> present[j]["source_path"],
              size_gb           |-> fs[present[j]["source_path"]],
              modification_time |-> mt[present[j]["source_path"]],
              filename          |-> present[j]["filename"] ]]

\* list.sort(key = modification_time) is stable: an element goes behind
\* every element that is not newer
InsertSorted(sorted, x) ==
    LET k == Cardinality({ j \in 1..Len(sorted) :
                 sorted[j].modification_time <= x.modification_time })
    IN  SubSeq(sorted, 1, k) \o <<x>> \o SubSeq(sorted, k + 1, Len(sorted))

\* a bug: the candidates stay in history order
SortByModificationTime_None(cands) == cands

RECURSIVE SortByModificationTime(_)
SortByModificationTime(cands) ==
    IF cands = <<>> THEN <<>>
    ELSE InsertSorted(SortByModificationTime(SubSeq(cands, 1, Len(cands) - 1)),
                      cands[Len(cands)])

\* a bug: the candidate that crosses the threshold is left out
RECURSIVE SelectUntil_Exclusive(_, _, _)
SelectUntil_Exclusive(cands, total_freed_gb, need) ==
    IF cands = <<>> \/ total_freed_gb + Head(cands).size_gb >= need THEN <<>>
    ELSE <<Head(cands)>> \o
         SelectUntil_Exclusive(Tail(cands), total_freed_gb + Head(cands).size_gb, need)

\* lines 234-243: take candidates until enough space is freed
RECURSIVE SelectUntil(_, _, _)
SelectUntil(cands, total_freed_gb, need) ==
    IF cands = <<>> \/ total_freed_gb >= need THEN <<>>
    ELSE <<Head(cands)>> \o
         SelectUntil(Tail(cands), total_freed_gb + Head(cands).size_gb, need)

\* a bug: the space to free is the distance from the target, not max(0, ...)
get_files_to_cleanup_Distance(history, fs, mt, usage1, usage2, target_free_gb) ==
    LET successful == get_successful_uploads(history)
        need       == IF target_free_gb * GiB - usage2.free > 0
                      THEN target_free_gb * GiB - usage2.free
                      ELSE usage2.free - target_free_gb * GiB
        sorted     == SortByModificationTime(Candidates(successful, fs, mt))
        nothing    == [disk_usage |-> usage1, space_to_free_gb |-> 0,
                       cleanup_candidates |-> <<>>, files_to_delete |-> <<>>]
    IN  IF ~needs_cleanup(usage1, DEFAULT_THRESHOLD_GB, DEFAULT_USAGE_PERCENT)
        THEN nothing
        ELSE IF successful = <<>> THEN nothing
        ELSE IF ~usage2.known
             THEN [nothing EXCEPT !.disk_usage = usage2]
        ELSE [ disk_usage         |-> usage2,
               space_to_free_gb   |-> need,
               cleanup_candidates |-> sorted,
               files_to_delete    |-> SelectUntil(sorted, 0, need) ]

\* a bug: an unknown disk usage is taken as a disk with no free space
get_files_to_cleanup_AssumesFull(history, fs, mt, usage1, usage2, target_free_gb) ==
    LET successful == get_successful_uploads(history)
        need       == IF target_free_gb * GiB - usage2.free > 0
                      THEN target_free_gb * GiB - usage2.free ELSE 0
        sorted     == SortByModificationTime(Candidates(successful, fs, mt))
        nothing    == [disk_usage |-> usage1, space_to_free_gb |-> 0,
                       cleanup_candidates |-> <<>>, files_to_delete |-> <<>>]
    IN  IF ~needs_cleanup(usage1, DEFAULT_THRESHOLD_GB, DEFAULT_USAGE_PERCENT)
        THEN nothing
        ELSE IF successful = <<>> THEN nothing
        ELSE IF need <= 0
             THEN [nothing EXCEPT !.disk_usage = usage2]
        ELSE [ disk_usage         |-> usage2,
               space_to_free_gb   |-> need,
               cleanup_candidates |-> sorted,
               files_to_delete    |-> SelectUntil(sorted, 0, need) ]

\* a bug: the selection does not ask needs_cleanup first
get_files_to_cleanup_Unchecked(history, fs, mt, usage1, usage2, target_free_gb) ==
    LET successful == get_successful_uploads(history)
        need       == IF target_free_gb * GiB - usage2.free > 0
                      THEN target_free_gb * GiB - usage2.free ELSE 0
        sorted     == SortByModificationTime(Candidates(successful, fs, mt))
    IN  IF ~usage2.known
        THEN [disk_usage |-> usage2, space_to_free_gb |-> 0,
              cleanup_candidates |-> <<>>, files_to_delete |-> <<>>]
        ELSE [ disk_usage         |-> usage2,
               space_to_free_gb   |-> need,
               cleanup_candidates |-> sorted,
               files_to_delete    |-> SelectUntil(sorted, 0, need) ]

\* get_files_to_cleanup (lines 175-250) on the snapshots its two reads of
\* the disk usage give: the locals it computes and the list it returns
get_files_to_cleanup(history, fs, mt, usage1, usage2, target_free_gb) ==
    LET successful == get_successful_uploads(history)
        need       == IF target_free_gb * GiB - usage2.free > 0
                      THEN target_free_gb * GiB - usage2.free ELSE 0
        sorted     == SortByModificationTime(Candidates(successful, fs, mt))
        nothing    == [disk_usage |-> usage1, space_to_free_gb |-> 0,
                       cleanup_candidates |-> <<>>, files_to_delete |-> <<>>]
    IN  IF ~needs_cleanup(usage1, DEFAULT_THRESHOLD_GB, DEFAULT_USAGE_PERCENT)
        THEN nothing                                     \* lines 180-182
        ELSE IF successful = <<>> THEN nothing           \* lines 184-187
        ELSE IF ~usage2.known                            \* lines 190-192
             THEN [nothing EXCEPT !.disk_usage = usage2]
        ELSE IF need <= 0                                \* lines 196-200
             THEN [nothing EXCEPT !.disk_usage = usage2]
        ELSE [ disk_usage         |-> usage2,
               space_to_free_gb   |-> need,
               cleanup_candidates |-> sorted,
               files_to_delete    |-> SelectUntil(sorted, 0, need) ]

\* the history logs upload runs can have left: what record_upload_history
\* writes for a sequence of outcomes, and no log at all
\* (any file uploaded successfully, a.zip also with failed uploads)
RowInputs == (CleanupPaths \X {TRUE}) \cup ({"/src/a.zip"} \X {FALSE})

RECURSIVE WriteAll(_)
WriteAll(inputs) ==
    IF inputs = <<>> THEN [exists |-> FALSE, lines |-> <<>>]
    ELSE LET last == inputs[Len(inputs)]
         IN  record_upload_history(
                 WriteAll(SubSeq(inputs, 1, Len(inputs) - 1)),
                 get_file_info(last[1], UploadedSize(last[1])),
                 last[2], IF last[2] THEN 101 ELSE 0, TRUE)

HistoryLogs == { WriteAll(inputs) : inputs \in SeqsUpTo(RowInputs, MaxHist) }

\* the files still on disk: all of them, or all but one
Presences == { present \in SUBSET CleanupPaths : Cardinality(present) >= 2 }

\* a log written by a version that wrote no header line: the rows alone
LegacyLogs ==
    { [exists |-> TRUE, lines |-> Tail(log.lines)] :
          log \in { l \in HistoryLogs : l.exists } }

\* a new process with a CleanupManager about to be constructed, the log being
\* one of logs
InitCleanupOn(logs) ==
    /\ pc = "cleanup_new"
    /\ sources_file = NoSourcesFile
    /\ DELETE_AFTER_UPLOAD \in BOOLEAN
    /\ connected = FALSE
    /\ \E present \in Presences : disk = [p \in present |-> CleanupDisk[p]]
    /\ \E mt \in MTimes : mtime = [p \in DOMAIN disk |-> mt[p]]
    /\ history_file \in logs
    /\ files = <<>> /\ i = 0 /\ retry_count = 0 /\ last_exc = NoException
    /\ sleeping = 0 /\ successful_uploads = 0 /\ failed_uploads = <<>>
    /\ total_uploaded_bytes = 0 /\ results = NoResults
    /\ d = 0 /\ deleted_count = 0 /\ deleted = {} /\ run_result = "none"
    /\ attempts = 0 /\ floods = 0
    /\ recs = <<>> /\ rec_calls = <<>> /\ notifs = <<>> /\ outcome = <<>>
    /\ failed_deletions = 0
    /\ last_delete = NoDelete
    /\ upload_history = <<>>
    /\ disk_usage = NoUsage
    /\ cleanup_needed = "unchecked"
    /\ space_to_free_gb = 0
    /\ cleanup_candidates = <<>>
    /\ files_to_cleanup = <<>>
    /\ cleanup_results = NoResults
    /\ called_target_gb = 0
    /\ selection_calls = 0
    /\ sources = <<>>
    /\ active_mounts = {}
    /\ mount_table = {}
    /\ acquired = {}
    /\ prepared = <<>>
    /\ unmount_attempts = {}
    /\ cleanup_mounts_calls = 0
    /\ exit_path = "none"
    /\ exit_status = -1
    /\ read_only_filesystems = {}
    /\ sent = {}
    /\ kept_read_only = {}
    /\ history_read = "none"
    /\ written = {}

InitCleanup == InitCleanupOn(HistoryLogs)

cleanup_frame == <<connected, history_file, DELETE_AFTER_UPLOAD, mtime,
                   deleted_count, run_result, failed_deletions, selection_calls>>

\* a bug: a missing log is created with its header when it is loaded
LoadHistory_CreatesLog ==
    /\ pc = "cleanup_new"
    /\ \E read_ok \in BOOLEAN :
           /\ upload_history' = load_upload_history(history_file, read_ok)
           /\ history_read' = IF ~history_file.exists THEN "missing"
                               ELSE IF read_ok THEN "ok" ELSE "failed"
    /\ history_file' = IF history_file.exists THEN history_file
                       ELSE [exists |-> TRUE, lines |-> <<HistoryHeader>>]
    /\ pc' = "cleanup_check"
    /\ UNCHANGED <<disk, d, deleted, last_delete, disk_usage, cleanup_needed,
                   space_to_free_gb, cleanup_candidates, files_to_cleanup,
                   cleanup_results>>
    /\ UNCHANGED <<connected, DELETE_AFTER_UPLOAD, mtime, deleted_count,
                   run_result, failed_deletions, selection_calls>>
    /\ UNCHANGED src_vars /\ UNCHANGED batch_vars
    /\ UNCHANGED <<report_vars, written>>
    /\ UNCHANGED called_target_gb

\* CleanupManager.__init__ (lines 18-21) with load_upload_history
LoadHistory ==
    /\ pc = "cleanup_new"
    /\ \E read_ok \in BOOLEAN :
           /\ upload_history' = load_upload_history(history_file, read_ok)
           /\ history_read' = IF ~history_file.exists THEN "missing"
                               ELSE IF read_ok THEN "ok" ELSE "failed"
    /\ pc' = "cleanup_check"
    /\ UNCHANGED <<disk, d, deleted, last_delete, disk_usage, cleanup_needed,
                   space_to_free_gb, cleanup_candidates, files_to_cleanup,
                   cleanup_results>>
    /\ UNCHANGED cleanup_frame /\ UNCHANGED src_vars /\ UNCHANGED batch_vars
    /\ UNCHANGED <<report_vars, written>>
    /\ UNCHANGED called_target_gb

\* a bug: run_cleanup goes on to the selection whatever the check says
CheckThreshold_Ignored ==
    /\ pc = "cleanup_check"
    /\ \E usage \in get_disk_usage :
           /\ disk_usage' = usage
           /\ cleanup_needed' =
                  IF needs_cleanup(usage, DEFAULT_THRESHOLD_GB, DEFAULT_USAGE_PERCENT)
                  THEN "yes" ELSE "no"
    /\ pc' = "cleanup_select"
    /\ UNCHANGED <<disk, d, deleted, last_delete, upload_history, cleanup_results,
                   space_to_free_gb, cleanup_candidates, files_to_cleanup>>
    /\ UNCHANGED cleanup_frame /\ UNCHANGED src_vars /\ UNCHANGED obs_vars /\ UNCHANGED batch_vars
    /\ UNCHANGED called_target_gb

\* run_cleanup, lines 314-319: the threshold check
CheckThreshold ==
    /\ pc = "cleanup_check"
    /\ \E usage \in get_disk_usage :
           /\ disk_usage' = usage
           /\ IF needs_cleanup(usage, DEFAULT_THRESHOLD_GB, DEFAULT_USAGE_PERCENT)
              THEN /\ cleanup_needed' = "yes"
                   /\ cleanup_results' = cleanup_results
                   /\ pc' = "cleanup_select"
              ELSE /\ cleanup_needed' = "no"
                   /\ cleanup_results' =
                          [cleanup_performed |-> FALSE,
                           reason |-> "Sufficient disk space available"]
                   /\ pc' = "cleanup_done"
    /\ UNCHANGED <<disk, d, deleted, last_delete, upload_history,
                   space_to_free_gb, cleanup_candidates, files_to_cleanup>>
    /\ UNCHANGED cleanup_frame /\ UNCHANGED src_vars /\ UNCHANGED obs_vars /\ UNCHANGED batch_vars
    /\ UNCHANGED called_target_gb

\* run_cleanup, lines 321-330: get_files_to_cleanup, then cleanup_files is
\* entered (lines 256-266)
SelectCandidates ==
    /\ pc = "cleanup_select"
    /\ \E usage1 \in get_disk_usage, usage2 \in get_disk_usage :
           LET sel == get_files_to_cleanup(upload_history, disk, mtime, usage1,
                                           usage2, DEFAULT_TARGET_FREE_GB)
           IN  /\ disk_usage' = sel.disk_usage
               /\ space_to_free_gb' = sel.space_to_free_gb
               /\ cleanup_candidates' = sel.cleanup_candidates
               /\ files_to_cleanup' = sel.files_to_delete
               /\ IF sel.files_to_delete = <<>>
                  THEN /\ cleanup_results' =
                              [cleanup_performed |-> FALSE,
                               reason |-> "No files available for cleanup"]
                       /\ d' = 0
                       /\ pc' = "cleanup_done"
                  ELSE /\ cleanup_results' =
                              [total_files          |-> Len(sel.files_to_delete),
                               successful_deletions |-> 0,
                               failed_deletions     |-> 0,
                               total_freed_gb       |-> 0]
                       /\ d' = 1
                       /\ pc' = "cleanup_delete"
    /\ UNCHANGED <<disk, deleted, last_delete, upload_history, cleanup_needed>>
    /\ called_target_gb' = DEFAULT_TARGET_FREE_GB
    /\ UNCHANGED cleanup_frame /\ UNCHANGED src_vars /\ UNCHANGED obs_vars /\ UNCHANGED batch_vars

\* a bug: an exception of os.remove leaves cleanup_files
RemoveOutcome_Raises(path, mode) ==
    IF path \notin DOMAIN disk THEN "missing"
    ELSE IF mode = "rw" THEN "removed"
    ELSE IF mode = "lingers" THEN "still_exists"
    ELSE "raised"

\* cleanup_files, lines 270-296: what one iteration of the loop comes to
RemoveOutcome(path, mode) ==
    IF path \notin DOMAIN disk THEN "missing"            \* lines 273-276
    ELSE IF mode = "rw" THEN "removed"                   \* lines 283, 289-292
    ELSE IF mode = "lingers" THEN "still_exists"         \* lines 286-288
    ELSE "caught"               \* os.remove raises OSError: lines 294-296

\* one iteration of the for loop of cleanup_files (lines 268-296)
CleanupOne ==
    /\ pc = "cleanup_delete"
    /\ \E mode \in DirModes :
           LET path == files_to_cleanup[d].path
               what == RemoveOutcome(path, mode)
           IN  /\ disk' = IF what = "missing" THEN disk ELSE os_remove(disk, path, mode)
               /\ deleted' = IF what = "removed" THEN deleted \cup {path} ELSE deleted
               /\ last_delete' =
                      [ path         |-> path,
                        existed      |-> path \in DOMAIN disk,
                        read_only    |-> path \in DOMAIN disk /\ ReadOnly(mode),
                        reported     |-> IF what = "removed" THEN "deleted"
                                         ELSE IF what = "raised" THEN "none"
                                         ELSE "kept",
                        exists_after |-> path \in DOMAIN disk',
                        raised       |-> what = "raised" ]
               /\ IF what = "raised"
                  THEN /\ cleanup_results' = cleanup_results
                       /\ d' = d
                       /\ pc' = "cleanup_crashed"
                  ELSE /\ cleanup_results' =
                              IF what = "removed"
                              THEN [cleanup_results EXCEPT
                                       !.successful_deletions = @ + 1,
                                       !.total_freed_gb = @ + disk[path]]
                              ELSE [cleanup_results EXCEPT !.failed_deletions = @ + 1]
                       /\ IF d = Len(files_to_cleanup)
                          THEN /\ d' = d
                               /\ pc' = "cleanup_final"
                          ELSE /\ d' = d + 1
                               /\ pc' = "cleanup_delete"
    /\ UNCHANGED <<upload_history, disk_usage, cleanup_needed, space_to_free_gb,
                   cleanup_candidates, files_to_cleanup>>
    /\ UNCHANGED cleanup_frame /\ UNCHANGED src_vars /\ UNCHANGED obs_vars /\ UNCHANGED batch_vars
    /\ UNCHANGED called_target_gb

\* run_cleanup, lines 331-342: the result of a cleanup that was performed.
\* final_free_gb is in the result only if the last read of the disk usage
\* gave a snapshot; its value is not kept.
FinishCleanup ==
    /\ pc = "cleanup_final"
    /\ \E usage \in get_disk_usage :
           cleanup_results' =
               [ total_files          |-> cleanup_results.total_files,
                 successful_deletions |-> cleanup_results.successful_deletions,
                 failed_deletions     |-> cleanup_results.failed_deletions,
                 total_freed_gb       |-> cleanup_results.total_freed_gb,
                 cleanup_performed    |-> TRUE,
                 has_final_free_gb    |-> usage.known ]
    /\ pc' = "cleanup_done"
    /\ UNCHANGED <<disk, d, deleted, last_delete, upload_history, disk_usage,
                   cleanup_needed, space_to_free_gb, cleanup_candidates,
                   files_to_cleanup>>
    /\ UNCHANGED cleanup_frame /\ UNCHANGED src_vars /\ UNCHANGED obs_vars /\ UNCHANGED batch_vars
    /\ UNCHANGED called_target_gb

NextCleanup ==
    \/ LoadHistory
    \/ CheckThreshold
    \/ SelectCandidates
    \/ CleanupOne
    \/ FinishCleanup

SpecCleanup == InitCleanup /\ [][NextCleanup]_vars

\* the cleanup engine started on a log with or without the header line
InitLegacy == InitCleanupOn(HistoryLogs \cup LegacyLogs)

SpecLegacy == InitLegacy /\ [][NextCleanup]_vars

(***************************************************************************)
(* The log from its writer to its reader: record_upload_history called any *)
(* number of times, then a CleanupManager constructed on the log           *)
(***************************************************************************)
\* file records the uploader can be given: the discovered ones and a file
\* whose name holds a comma
RoundTripInfos == FileInfos \cup { get_file_info("/src/a,b.zip", 50) }

InitRoundTrip == InitHistory

RecordAny ==
    /\ pc = "history"
    /\ Len(history_file.lines) <= MaxLog
    /\ \E file_info \in RoundTripInfos, success \in BOOLEAN,
          message_id \in MessageIds \cup {0}, write_ok \in BOOLEAN :
           /\ history_file' = record_upload_history(history_file, file_info, success,
                                                    message_id, write_ok)
           /\ written' = IF write_ok /\ success
                          THEN written \cup {[name |-> file_info.name,
                                              path |-> file_info.path]}
                          ELSE written
    /\ UNCHANGED <<pc, connected>>
    /\ UNCHANGED batch_vars /\ UNCHANGED env_vars /\ UNCHANGED run_vars
    /\ UNCHANGED cleanup_vars /\ UNCHANGED src_vars /\ UNCHANGED del_vars
    /\ UNCHANGED <<report_vars, history_read>>

\* CleanupManager(UPLOAD_HISTORY_FILE) is constructed (lines 18-21)
LoadWrittenLog ==
    /\ pc = "history"
    /\ \E read_ok \in BOOLEAN :
           /\ upload_history' = load_upload_history(history_file, read_ok)
           /\ history_read' = IF ~history_file.exists THEN "missing"
                               ELSE IF read_ok THEN "ok" ELSE "failed"
    /\ pc' = "cleanup_check"
    /\ UNCHANGED <<disk, d, deleted, last_delete, disk_usage, cleanup_needed,
                   space_to_free_gb, cleanup_candidates, files_to_cleanup,
                   cleanup_results>>
    /\ UNCHANGED cleanup_frame /\ UNCHANGED src_vars /\ UNCHANGED batch_vars
    /\ UNCHANGED <<report_vars, written>>
    /\ UNCHANGED called_target_gb

NextRoundTrip ==
    \/ RecordAny
    \/ LoadWrittenLog

SpecRoundTrip == InitRoundTrip /\ [][NextRoundTrip]_vars

(***************************************************************************)
(* get_files_to_cleanup called directly, any number of times, on a disk    *)
(* whose usage does not change between the calls                           *)
(***************************************************************************)
MaxCalls == 2          \* calls of get_files_to_cleanup that are counted

\* targets get_files_to_cleanup is called with
Targets == {0, 10, DEFAULT_TARGET_FREE_GB, 100}

InitSelection ==
    /\ InitCleanup
    /\ ~DELETE_AFTER_UPLOAD

\* a bug: the records of the selected files are dropped from the loaded history
CallGetFilesToCleanup_ConsumesHistory ==
    /\ pc \in {"cleanup_check", "cleanup_selected"}
    /\ \E target \in Targets :
       \E usage \in (IF pc = "cleanup_check" THEN get_disk_usage ELSE {disk_usage}) :
           LET sel == get_files_to_cleanup(upload_history, disk, mtime, usage,
                                           usage, target)
               chosen == { sel.files_to_delete[j].path :
                              j \in 1..Len(sel.files_to_delete) }
           IN  /\ called_target_gb' = target
               /\ disk_usage' = usage
               /\ cleanup_needed' =
                      IF needs_cleanup(usage, DEFAULT_THRESHOLD_GB, DEFAULT_USAGE_PERCENT)
                      THEN "yes" ELSE "no"
               /\ space_to_free_gb' = sel.space_to_free_gb
               /\ cleanup_candidates' = sel.cleanup_candidates
               /\ files_to_cleanup' = sel.files_to_delete
               /\ upload_history' =
                      SelectSeq(upload_history,
                                LAMBDA record : record["source_path"] \notin chosen)
    /\ selection_calls' = IF selection_calls < MaxCalls THEN selection_calls + 1
                                                        ELSE selection_calls
    /\ pc' = "cleanup_selected"
    /\ UNCHANGED <<connected, history_file, DELETE_AFTER_UPLOAD, disk, mtime,
                   cleanup_results, failed_deletions, last_delete>>
    /\ UNCHANGED batch_vars /\ UNCHANGED run_vars /\ UNCHANGED src_vars /\ UNCHANGED obs_vars

\* get_files_to_cleanup(target_free_gb) (lines 175-250); both reads of the
\* disk usage give the state the disk is in, which the first call finds
CallGetFilesToCleanup ==
    /\ pc \in {"cleanup_check", "cleanup_selected"}
    /\ \E target \in Targets :
       \E usage \in (IF pc = "cleanup_check" THEN get_disk_usage ELSE {disk_usage}) :
           LET sel == get_files_to_cleanup(upload_history, disk, mtime, usage,
                                           usage, target)
           IN  /\ called_target_gb' = target
               /\ disk_usage' = usage
               /\ cleanup_needed' =
                      IF needs_cleanup(usage, DEFAULT_THRESHOLD_GB, DEFAULT_USAGE_PERCENT)
                      THEN "yes" ELSE "no"
               /\ space_to_free_gb' = sel.space_to_free_gb
               /\ cleanup_candidates' = sel.cleanup_candidates
               /\ files_to_cleanup' = sel.files_to_delete
               /\ upload_history' = upload_history
    /\ selection_calls' = IF selection_calls < MaxCalls THEN selection_calls + 1
                                                        ELSE selection_calls
    /\ pc' = "cleanup_selected"
    /\ UNCHANGED <<connected, history_file, DELETE_AFTER_UPLOAD, disk, mtime,
                   cleanup_results, failed_deletions, last_delete>>
    /\ UNCHANGED batch_vars /\ UNCHANGED run_vars /\ UNCHANGED src_vars /\ UNCHANGED obs_vars

NextSelection ==
    \/ LoadHistory
    \/ CallGetFilesToCleanup

SpecSelection == InitSelection /\ [][NextSelection]_vars

(***************************************************************************)
(* Claims                                                                  *)
(***************************************************************************)
Positions == 1..Len(files)

\* positions of the current batch whose upload returned success
Succeeded == { k \in Positions : outcome[k] = "ok" }

\* positions whose upload returned failure from send_file_with_progress
\* (retries exhausted, too large, not connected)
Failed == { k \in Positions : outcome[k] = "fail" }

InTransfer == pc \in {"send", "flood_sleep", "retry_sleep"}

LogLines == history_file.lines
LastLine == LogLines[Len(LogLines)]

IsPrefix(a, b) == Len(a) <= Len(b) /\ \A j \in 1..Len(a) : a[j] = b[j]

\* C1: in a run with delete-after-upload enabled, a file whose upload ended
\* in failure (retries exhausted, too-large skip, not connected) and did not
\* succeed at another position of the list is never removed by
\* delete_files_after_upload.
C1_DeletedOnlyIfUploaded ==
    \A k \in Failed :
        (\A j \in Succeeded : files[j].path # files[k].path)
            => files[k].path \notin deleted

\* C2 as stated: every too-large file handed to send_file_with_progress
\* gets exactly one history record.
C2_ExactlyOneRecord ==
    \A k \in Failed : files[k].is_too_large => recs[k] = 1

\* C2, amended: for a file with is_too_large set send_file_with_progress
\* never calls the transport's send_file and returns failure, the file is
\* counted in the failed entries, and at most one history record is appended
\* for it: record_upload_history is called once when the uploader is
\* connected (not at all otherwise), and the record, present unless that
\* write failed, has success = FALSE.
C2_TooLargeSkipped ==
    /\ InTransfer => ~files[i].is_too_large
    /\ \A k \in Positions : files[k].is_too_large =>
           /\ outcome[k] # "ok"
           /\ k \in Failed =>
                  /\ rec_calls[k] = (IF connected THEN 1 ELSE 0)
                  /\ recs[k] <= rec_calls[k]
    /\ (pc = "pause" /\ files[i].is_too_large) =>
           /\ attempts = 0
           /\ i \in Failed
           /\ failed_uploads # <<>>
           /\ failed_uploads[Len(failed_uploads)].name = files[i].name
           /\ Len(failed_uploads) = Cardinality({k \in Positions : outcome[k] \in {"fail", "exc"}})
           /\ recs[i] = 1 => /\ ~RowSuccess(LastLine)
                             /\ RowPath(LastLine) = files[i].path

C2_Witness ==
    /\ pc = "pause"
    /\ files[i].is_too_large
    /\ connected
    /\ recs[i] = 1

\* C3: a rate-limit outcome never changes retry_count, a generic or RPC
\* error that is retried increments it by one, and a file that ends in
\* permanent failure after transfer attempts has had exactly
\* MAX_RETRY_ATTEMPTS + 1 attempts that were not rate-limited, however many
\* rate-limit waits came in between.
C3_RetryCounter ==
    [][ /\ (pc = "send" /\ pc' = "flood_sleep") => retry_count' = retry_count
        /\ (pc = "flood_sleep" /\ pc' = "send") => retry_count' = retry_count
        /\ (pc = "send" /\ pc' = "retry_sleep") =>
               /\ retry_count < MAX_RETRY_ATTEMPTS
               /\ retry_count' = retry_count
        /\ (pc = "retry_sleep" /\ pc' = "send") => retry_count' = retry_count + 1
        /\ pc' = "send" => attempts' - floods' = retry_count' + 1
        /\ (pc = "send" /\ ~InTransfer' /\ outcome'[i] = "fail") =>
               /\ retry_count = MAX_RETRY_ATTEMPTS
               /\ attempts - floods = MAX_RETRY_ATTEMPTS + 1
               /\ attempts' = attempts
      ]_vars

C3_Witness ==
    /\ pc = "pause"
    /\ i \in Failed
    /\ floods = 2
    /\ attempts = MAX_RETRY_ATTEMPTS + 1 + 2

\* C4: on a rate-limit condition carrying N the pipeline sleeps exactly N
\* seconds, then attempts the same file again with the same retry_count
\* before any other file; the rate-limited attempt produces no history
\* record, no failed entry and no error notification.
C4_FloodWait ==
    [][ /\ (pc = "send" /\ last_exc'.type = "FloodWaitError") =>
               /\ pc' = "flood_sleep"
               /\ sleeping' = last_exc'.seconds
               /\ i' = i
               /\ retry_count' = retry_count
               /\ history_file' = history_file
               /\ failed_uploads' = failed_uploads
               /\ notifs' = notifs
               /\ outcome' = outcome
        /\ pc = "flood_sleep" =>
               /\ pc' = "send"
               /\ i' = i
               /\ files' = files
               /\ retry_count' = retry_count
               /\ attempts' = attempts + 1
               /\ history_file' = history_file
               /\ failed_uploads' = failed_uploads
               /\ notifs' = notifs
               /\ outcome' = outcome
      ]_vars

C4_Witness ==
    /\ pc = "send"
    /\ floods = 2
    /\ retry_count = 1
    /\ attempts = 4
    /\ i = 2

\* C5 as stated: a file whose retries are exhausted has one failed history
\* record appended and one error notification.
C5_OneFailedRecord ==
    (pc = "pause" /\ i \in Failed /\ attempts > 0) =>
        /\ recs[i] = 1
        /\ notifs[i] = 1

\* C5, amended: on a generic or RPC error at retry count r <
\* MAX_RETRY_ATTEMPTS the pipeline sleeps RETRY_DELAY * (r + 1) seconds
\* before the next attempt; at r = MAX_RETRY_ATTEMPTS it neither backs off
\* nor retries but calls record_upload_history once, which appends one
\* failed record unless the write fails, and emits one error notification.
C5_LinearBackoff ==
    /\ pc = "retry_sleep" =>
           /\ retry_count < MAX_RETRY_ATTEMPTS
           /\ sleeping = RETRY_DELAY * (retry_count + 1)
           /\ last_exc.type \in ErrorKinds
           /\ outcome[i] = "none"
           /\ rec_calls[i] = 0
           /\ notifs[i] = 0
    /\ (pc = "pause" /\ i \in Failed /\ attempts > 0) =>
           /\ retry_count = MAX_RETRY_ATTEMPTS
           /\ sleeping = get_pause_time(files[i].size_mb)
           /\ rec_calls[i] = 1
           /\ recs[i] <= 1
           /\ notifs[i] = 1
           /\ recs[i] = 1 => /\ ~RowSuccess(LastLine)
                             /\ RowPath(LastLine) = files[i].path

C5_Witness ==
    /\ pc = "retry_sleep"
    /\ retry_count = 2
    /\ sleeping = 3 * RETRY_DELAY

\* positions of the batch whose record is in the log, in list order
Recorded == SelectSeq([k \in Positions |-> k], LAMBDA k : recs[k] = 1)

\* rows of the log (the header left out)
LogRows == IF LogLines = <<>> THEN <<>> ELSE Tail(LogLines)

C7_EarlierRecorded ==
    InTransfer => \A k \in 1..(i - 1) : outcome[k] \in {"ok", "fail"} => recs[k] = 1

\* C7, amended: transfers are strictly sequential: while a transfer attempt
\* for file N+1 is under way every earlier file has reached its terminal
\* outcome and record_upload_history has been called for it (its record is
\* in the log unless that write failed), and no later file has been touched.
C7_Sequential ==
    InTransfer =>
        /\ i \in Positions
        /\ outcome[i] = "none"
        /\ \A k \in 1..(i - 1) :
               /\ outcome[k] # "none"
               /\ rec_calls[k] = 1
               /\ recs[k] <= 1
        /\ \A k \in (i + 1)..Len(files) :
               /\ outcome[k] = "none"
               /\ rec_calls[k] = 0
        /\ Len(LogRows) = Cardinality({k \in 1..(i - 1) : recs[k] = 1})

C7_Witness ==
    /\ pc = "send"
    /\ i = 3
    /\ outcome[1] = "fail"
    /\ outcome[2] = "ok"
    /\ recs[1] = 1
    /\ recs[2] = 1

\* C8: a failed file (too large, retries exhausted, exception in the loop
\* body) does not abort the batch: the files are processed one by one in
\* list order, each exactly once, and send_files_batch returns results whose
\* total is the length of the list.
C8_BatchNeverAborts ==
    /\ pc \in {"loop", "send", "flood_sleep", "retry_sleep", "pause"} =>
           /\ i \in Positions
           /\ \A k \in 1..(i - 1) : outcome[k] # "none"
           /\ \A k \in (i + 1)..Len(files) : outcome[k] = "none"
           /\ pc = "pause" <=> outcome[i] # "none"
    /\ files # <<>> =>
           /\ successful_uploads = Cardinality(Succeeded)
           /\ Len(failed_uploads) = Cardinality({k \in Positions : outcome[k] \in {"fail", "exc"}})
    /\ pc = "batch_return" =>
           /\ results.total = Len(files)
           /\ \A k \in Positions : outcome[k] # "none"
           /\ files # <<>> => results.successful + results.failed = Len(files)

C8_Witness ==
    /\ pc = "batch_return"
    /\ outcome = <<"fail", "exc", "ok">>
    /\ files[1].is_too_large
    /\ results.successful = 1
    /\ results.failed = 2

\* C9: the result of send_files_batch reports total_uploaded_bytes equal to
\* the sum of size_bytes over the files whose upload succeeded, for every
\* list, the empty one included.
C9_TotalUploadedBytes ==
    pc = "batch_return" =>
        /\ "total_uploaded_bytes" \in DOMAIN results
        /\ results.total_uploaded_bytes = SumSizes(files, Succeeded)

HeaderOnce ==
    IF history_file.exists
    THEN /\ LogLines # <<>>
         /\ IsHeader(LogLines[1])
         /\ \A j \in 2..Len(LogLines) : ~IsHeader(LogLines[j])
    ELSE LogLines = <<>>

C11_HeaderSevenColumns ==
    (history_file.exists /\ Len(LogLines) = 2)
        => /\ LogLines[1] = UPLOAD_HISTORY_HEADER
           /\ Len(LogLines[2]) = Len(LogLines[1])

\* the transfer of the file at position i has just returned a message
\* (the step leaves "send" without going to sleep and without an error
\* notification) and the history write of that step failed
TransferOkWriteFailed ==
    /\ pc = "send"
    /\ pc' \notin {"flood_sleep", "retry_sleep"}
    /\ notifs' = notifs
    /\ rec_calls' = Bump(rec_calls, i)
    /\ recs' = recs

\* C12: a history write that fails does not propagate: the transfer that
\* succeeded is returned and counted as successful, its bytes are added, no
\* failed entry and no error notification is produced, the log is left as
\* it was, and the batch goes on (pause, next file, or the final result).
C12_WriteFailureSwallowed ==
    [][ TransferOkWriteFailed =>
            /\ outcome'[i] = "ok"
            /\ successful_uploads' = successful_uploads + 1
            /\ total_uploaded_bytes' = total_uploaded_bytes + files[i].size_bytes
            /\ failed_uploads' = failed_uploads
            /\ history_file' = history_file
            /\ pc' \in {"pause", "loop", "batch_return"}
            /\ retry_count' = retry_count /\ attempts' = attempts ]_vars

\* a later file is in transfer after an earlier upload succeeded although
\* its history write failed
C12_Witness ==
    /\ pc = "send"
    /\ \E k \in 1..(i - 1) :
           outcome[k] = "ok" /\ rec_calls[k] = 1 /\ recs[k] = 0
    /\ successful_uploads >= 1

(***************************************************************************)
(* Claims about the cleanup engine                                         *)
(***************************************************************************)
\* The two deletion loops of the program: delete_files_after_upload of
\* main.py called on a list of discovered files, and run_cleanup.
\* the source files, and with them a file named .write_test that is not
\* the program's
WithWriteTest ==
    [p \in SourceTree \cup {"/src/.write_test"} |->
        IF p \in SourceTree THEN InitialDisk[p] ELSE 1]

InitBot ==
    /\ pc = "bot_new"
    /\ disk \in {InitialDisk, WithWriteTest}
    /\ InitCommon
    /\ sources_file = NoSourcesFile

\* BackupBot.delete_files_after_upload(files) is entered (main.py lines 211-220)
CallDeleteFiles ==
    /\ pc = "bot_new"
    /\ \E list \in DiscoveredLists :
           /\ files' = list
           /\ IF ~DELETE_AFTER_UPLOAD \/ list = <<>>
              THEN /\ pc' = "run_complete"
                   /\ d' = 0
              ELSE /\ pc' = "run_delete"
                   /\ d' = 1
    /\ deleted_count' = 0
    /\ failed_deletions' = 0
    /\ read_only_filesystems' = {}
    /\ UNCHANGED <<connected, history_file, deleted, run_result, last_delete,
                   i, retry_count, last_exc, sleeping, successful_uploads,
                   failed_uploads, total_uploaded_bytes, results, attempts,
                   floods, recs, rec_calls, notifs, outcome>>
    /\ UNCHANGED env_vars /\ UNCHANGED cleanup_vars /\ UNCHANGED src_vars
    /\ UNCHANGED <<sent, kept_read_only, history_read, written>>

NextDeletion ==
    \/ CallDeleteFiles
    \/ DeleteOne
    \/ NextCleanup

SpecDeletion == (InitBot \/ InitCleanup) /\ [][NextDeletion]_vars

Thresholds == {5, 10, 50}
Percents   == {80, 90, 95}

\* C13: needs_cleanup(threshold_gb, usage_percent) is true exactly when
\* free_gb < threshold_gb or the used percentage > usage_percent, both
\* strict, and true when the disk usage is unknown; the threshold check of
\* run_cleanup reports what needs_cleanup says of the snapshot it read.
C13_NeedsCleanup ==
    /\ \A usage \in DiskUsages, threshold_gb \in Thresholds, usage_percent \in Percents :
           IF ~usage.known
           THEN needs_cleanup(usage, threshold_gb, usage_percent)
           ELSE /\ (usage.free < threshold_gb * GiB)
                       => needs_cleanup(usage, threshold_gb, usage_percent)
                /\ (usage.used * 100 > usage_percent * usage.total)
                       => needs_cleanup(usage, threshold_gb, usage_percent)
                /\ (usage.free >= threshold_gb * GiB
                    /\ usage.used * 100 <= usage_percent * usage.total)
                       => ~needs_cleanup(usage, threshold_gb, usage_percent)
    /\ (pc = "cleanup_select" \/ cleanup_needed = "no")
           => (cleanup_needed = "yes"
                  <=> \/ ~disk_usage.known
                      \/ disk_usage.free < DEFAULT_THRESHOLD_GB * GiB
                      \/ disk_usage.used * 100 > DEFAULT_USAGE_PERCENT * disk_usage.total)

\* the threshold check has read 5 GB free and reported that cleanup is needed
C13_Witness ==
    /\ pc = "cleanup_select"
    /\ disk_usage.known /\ disk_usage.free = 5 * GiB
    /\ cleanup_needed = "yes"

\* accumulated size of the first n entries of a candidate list
RECURSIVE Accumulated(_, _)
Accumulated(cands, n) ==
    IF n = 0 THEN 0 ELSE Accumulated(cands, n - 1) + cands[n].size_gb

Selected == pc \in {"cleanup_delete", "cleanup_final", "cleanup_done"}

\* C14: the list returned by get_files_to_cleanup is the shortest prefix of
\* the oldest-first candidates whose accumulated size is >= the space to
\* free (the candidate that crosses the threshold included, nothing after
\* it), or all candidates if their total is smaller.
C14_ShortestPrefix ==
    (Selected /\ space_to_free_gb > 0)
        => LET n == Len(files_to_cleanup)
           IN  /\ IsPrefix(files_to_cleanup, cleanup_candidates)
               /\ n > 0 => Accumulated(cleanup_candidates, n - 1) < space_to_free_gb
               /\ \/ Accumulated(cleanup_candidates, n) >= space_to_free_gb
                  \/ n = Len(cleanup_candidates)

\* candidates of 1 GB, 2 GB, 3 GB, 2.5 GB to free: the first two are selected
C14_Witness ==
    /\ Selected
    /\ space_to_free_gb = 2 * GiB + GiB \div 2
    /\ Len(cleanup_candidates) = 3
    /\ cleanup_candidates[1].size_gb = 1 * GiB
    /\ cleanup_candidates[2].size_gb = 2 * GiB
    /\ cleanup_candidates[3].size_gb = 3 * GiB
    /\ Len(files_to_cleanup) = 2
    /\ Accumulated(files_to_cleanup, 2) = 3 * GiB

\* the candidates in the order of their records in the history log
InHistoryOrder == Candidates(get_successful_uploads(upload_history), disk, mtime)

WithTime(cands, t) == SelectSeq(cands, LAMBDA c : c.modification_time = t)

JustSelected == pc = "cleanup_delete" /\ d = 1

\* C15: the list returned by get_files_to_cleanup is ordered by modification
\* time ascending, and entries with equal modification time keep the
\* relative order of their records in the history log.
C15_OldestFirstStable ==
    JustSelected
        => /\ \A j, k \in 1..Len(files_to_cleanup) :
                  j < k => files_to_cleanup[j].modification_time
                               <= files_to_cleanup[k].modification_time
           /\ \A t \in {files_to_cleanup[j].modification_time :
                            j \in 1..Len(files_to_cleanup)} :
                  IsPrefix(WithTime(files_to_cleanup, t), WithTime(InHistoryOrder, t))

\* history order c.tar, b.7z, a.zip; a.zip is the oldest and the other two
\* have the same modification time: the list is a.zip, c.tar, b.7z
C15_Witness ==
    /\ JustSelected
    /\ Len(files_to_cleanup) = 3
    /\ files_to_cleanup[1].path = "/src/a.zip"
    /\ files_to_cleanup[2].path = "/src/c.tar"
    /\ files_to_cleanup[3].path = "/src/b.7z"
    /\ files_to_cleanup[2].modification_time = files_to_cleanup[3].modification_time
    /\ upload_history[1]["source_path"] = "/src/c.tar"
    /\ upload_history[3]["source_path"] = "/src/a.zip"

HistoryRows == IF LogLines = <<>> THEN <<>> ELSE Tail(LogLines)

\* paths with at least one successful / one failed record in the log
SuccessfulPaths ==
    { RowPath(HistoryRows[j]) : j \in { n \in 1..Len(HistoryRows) : RowSuccess(HistoryRows[n]) } }
FailedPaths ==
    { RowPath(HistoryRows[j]) : j \in { n \in 1..Len(HistoryRows) : ~RowSuccess(HistoryRows[n]) } }

\* the files that were on disk when the candidates were selected
PresentAtSelection == (DOMAIN disk) \cup deleted

\* C16: every file removed by run_cleanup is the source_path of a history
\* record with upload_success true and was on disk at selection time; a
\* record whose file is gone is skipped without error, a file with only
\* failed records is never selected, and a file with failed and successful
\* records is a candidate.
C16_OnlyUploadedAndPresent ==
    /\ pc # "cleanup_crashed"
    /\ deleted \subseteq SuccessfulPaths
    /\ Selected
         => \A j \in 1..Len(files_to_cleanup) :
                /\ files_to_cleanup[j].path \in SuccessfulPaths
                /\ files_to_cleanup[j].path \in PresentAtSelection
    /\ (Selected /\ space_to_free_gb > 0)
         => { cleanup_candidates[j].path : j \in 1..Len(cleanup_candidates) }
                = SuccessfulPaths \cap PresentAtSelection

\* a file with a failed and a successful record was removed, and a file
\* with a successful record that was no longer on disk was passed over
C16_Witness ==
    /\ pc = "cleanup_done"
    /\ deleted \cap FailedPaths # {}
    /\ SuccessfulPaths \ PresentAtSelection # {}

\* C17: with DELETE_AFTER_UPLOAD off no file is removed, neither by
\* delete_file_after_upload nor by the deletion stage of the cleanup engine.
C17_FlagOffDeletesNothing ==
    ~DELETE_AFTER_UPLOAD
        => /\ deleted = {}
           /\ last_delete.reported # "deleted"

DeletionAttempt == pc \in {"run_delete", "cleanup_delete"}

\* C18: a deletion attempt that meets a read-only filesystem does not raise,
\* reports the file as kept, leaves the file on disk, goes on with the next
\* file of the list, and is counted once as not deleted and not as deleted.
C18_ReadOnlyKept ==
    [][ (DeletionAttempt /\ last_delete'.read_only) =>
            /\ ~last_delete'.raised
            /\ last_delete'.reported = "kept"
            /\ last_delete'.path \in DOMAIN disk'
            /\ disk'[last_delete'.path] = disk[last_delete'.path]
            /\ deleted' = deleted
            /\ IF pc = "run_delete"
               THEN /\ deleted_count' = deleted_count
                    /\ failed_deletions' = failed_deletions + 1
                    /\ IF d < Len(files) THEN pc' = "run_delete" /\ d' = d + 1
                                         ELSE pc' = "run_complete"
               ELSE /\ cleanup_results'.successful_deletions
                           = cleanup_results.successful_deletions
                    /\ cleanup_results'.failed_deletions
                           = cleanup_results.failed_deletions + 1
                    /\ cleanup_results'.total_freed_gb = cleanup_results.total_freed_gb
                    /\ IF d < Len(files_to_cleanup)
                       THEN pc' = "cleanup_delete" /\ d' = d + 1
                       ELSE pc' = "cleanup_final" ]_vars

\* cleanup_files met a read-only filesystem at one file and is at the next
C18_Witness ==
    /\ pc = "cleanup_delete"
    /\ d >= 2
    /\ last_delete.read_only
    /\ last_delete.path = files_to_cleanup[d - 1].path
    /\ cleanup_results.failed_deletions >= 1

\* C19: a deletion is reported successful if and only if the file existed
\* before the call and no longer exists after it; a path missing beforehand
\* and a path still present afterwards both give a failed result, not an
\* exception.
C19_DeletedIffGone ==
    last_delete.reported # "none"
        => /\ ~last_delete.raised
           /\ last_delete.reported = "deleted"
                  <=> (last_delete.existed /\ ~last_delete.exists_after)
           /\ last_delete.exists_after <=> last_delete.path \in DOMAIN disk

\* delete_files_after_upload came to a path that an earlier entry of the
\* list had already removed, and reported it as not deleted
C19_Witness ==
    /\ pc \in {"run_delete", "run_complete"}
    /\ last_delete.reported = "kept"
    /\ ~last_delete.existed
    /\ last_delete.path \in deleted

\* C20: a cleanup invocation goes LOAD_HISTORY, CHECK_THRESHOLD,
\* SELECT_CANDIDATES, DELETE in that order: nothing is checked before the
\* history is loaded, nothing is selected unless the check said cleanup is
\* needed, nothing is deleted unless the selection is non-empty, and only
\* selected files are deleted.
C20_StagesInOrder ==
    /\ pc = "cleanup_new"
         => cleanup_needed = "unchecked" /\ files_to_cleanup = <<>> /\ deleted = {}
    /\ pc = "cleanup_check" => files_to_cleanup = <<>> /\ deleted = {}
    /\ pc = "cleanup_select"
         => cleanup_needed = "yes" /\ files_to_cleanup = <<>> /\ deleted = {}
    /\ pc \in {"cleanup_delete", "cleanup_final"}
         => cleanup_needed = "yes" /\ files_to_cleanup # <<>>
    /\ cleanup_needed = "no" => files_to_cleanup = <<>>
    /\ pc \in {"cleanup_new", "cleanup_check", "cleanup_select", "cleanup_delete",
               "cleanup_final", "cleanup_done"}
         => /\ deleted \subseteq
                   { files_to_cleanup[j].path : j \in 1..Len(files_to_cleanup) }
            /\ deleted # {} => cleanup_needed = "yes"

\* a cleanup that went through all four stages and removed a file
C20_Witness ==
    /\ pc = "cleanup_done"
    /\ cleanup_needed = "yes"
    /\ deleted # {}
    /\ cleanup_results.cleanup_performed

\* the fields of a result dictionary
Keys(result) == DOMAIN result

Returned == pc = "cleanup_done"

\* C21: run_cleanup always returns a tagged result: cleanup_performed false
\* with a reason, or cleanup_performed true with total_files,
\* successful_deletions, failed_deletions, total_freed_gb and final_free_gb.
C21_TaggedResult ==
    Returned =>
        /\ "cleanup_performed" \in Keys(cleanup_results)
        /\ IF cleanup_results.cleanup_performed
           THEN /\ {"total_files", "successful_deletions", "failed_deletions",
                    "total_freed_gb"} \subseteq Keys(cleanup_results)
                /\ cleanup_results.has_final_free_gb
           ELSE "reason" \in Keys(cleanup_results)

\* no record of the loaded history has upload_success true
NoSuccessfulRecord ==
    \A j \in 1..Len(upload_history) :
        Lower(upload_history[j]["upload_success"]) # "true"

\* max(0, target_free_gb - current_free_gb), in MiB
SpaceToFree(usage, target) ==
    IF target * GiB > usage.free THEN target * GiB - usage.free ELSE 0

\* C22: get_files_to_cleanup returns the empty list, and so nothing is
\* deleted, whenever needs_cleanup() is false, or no history record has
\* upload_success true, or max(0, target - current free space) is zero.
C22_NoOpSelection ==
    /\ pc = "cleanup_select" =>
         \A usage1 \in get_disk_usage, usage2 \in get_disk_usage, target \in Targets :
            ( \/ ~needs_cleanup(usage1, DEFAULT_THRESHOLD_GB, DEFAULT_USAGE_PERCENT)
              \/ NoSuccessfulRecord
              \/ (usage2.known /\ SpaceToFree(usage2, target) = 0) )
            => get_files_to_cleanup(upload_history, disk, mtime, usage1, usage2,
                                    target).files_to_delete = <<>>
    /\ (pc \in {"cleanup_delete", "cleanup_final"} \/ deleted # {})
         => /\ files_to_cleanup # <<>>
            /\ ~NoSuccessfulRecord
            /\ disk_usage.known
            /\ SpaceToFree(disk_usage, DEFAULT_TARGET_FREE_GB) > 0

\* run_cleanup returned without a deletion because the free space is
\* already above the target, although the disk is over the usage threshold
\* and uploaded files are present
C22_Witness ==
    /\ pc = "cleanup_done"
    /\ cleanup_needed = "yes"
    /\ files_to_cleanup = <<>> /\ deleted = {}
    /\ ~NoSuccessfulRecord
    /\ SuccessfulPaths \cap DOMAIN disk # {}
    /\ disk_usage.known
    /\ needs_cleanup(disk_usage, DEFAULT_THRESHOLD_GB, DEFAULT_USAGE_PERCENT)
    /\ SpaceToFree(disk_usage, DEFAULT_TARGET_FREE_GB) = 0

\* two calls of get_files_to_cleanup in a row
SecondCall == pc = "cleanup_selected" /\ pc' = "cleanup_selected"

\* C23: the selection is monotonic in the target: for a fixed history,
\* filesystem and disk state, the list selected for a target is a prefix of
\* the list selected for any target that is not smaller.
C23_MonotonicInTarget ==
    [][ (SecondCall /\ called_target_gb <= called_target_gb')
            => IsPrefix(files_to_cleanup, files_to_cleanup') ]_vars

\* the selection was called twice, and the last call, for the largest
\* target, selected all three candidates
C23_Witness ==
    /\ pc = "cleanup_selected"
    /\ selection_calls = 2
    /\ called_target_gb = 100
    /\ Len(files_to_cleanup) = 3
    /\ space_to_free_gb > 50 * GiB
    /\ cleanup_needed = "yes"

C25_EachPathOnce ==
    \A j \in 1..Len(files), k \in 1..Len(files) :
        j # k => files[j].path # files[k].path

\* the list handed to send_files_batch by run
IsSortedBySize(list) ==
    \A k \in 1..(Len(list) - 1) : list[k].size_bytes <= list[k + 1].size_bytes

\* C26: the list run hands to send_files_batch is sorted by size_bytes
\* ascending, for any number of sources, so the files of a batch are
\* uploaded smallest first.
C26_SortedAcrossSources ==
    IsSortedBySize(files)

\* every file of the batch was uploaded; holds of a run that found no file
ZeroFailedUploads == \A k \in Positions : outcome[k] = "ok"

\* C27: the process exits with status 0 if and only if the batch completed
\* with zero failed uploads (a run that finds no file has an empty batch);
\* it exits with 1 when an upload failed, when the sources could not be
\* loaded, when the client could not be initialised, and on a fatal error.
C27_ExitStatus ==
    pc = "exit" =>
        /\ exit_status \in {0, 1}
        /\ exit_status = 0 <=> (exit_path \in {"completed", "no_files"} /\ ZeroFailedUploads)
        /\ exit_path \in {"load_failed", "init_failed", "fatal"} => exit_status = 1
        /\ (exit_path = "completed" /\ results.failed > 0) => exit_status = 1

\* the process has exited with 0 after a batch of two uploads that both
\* succeeded, the second after a retry
C27_Witness ==
    /\ pc = "exit"
    /\ exit_status = 0
    /\ exit_path = "completed"
    /\ Len(files) = 2
    /\ results.successful = 2
    /\ attempts > 1

\* C28: on every exit path of run (source-load failure, client-init
\* failure, no files found, normal completion, fatal exception)
\* cleanup_mounts is called exactly once before run returns, so umount has
\* been attempted for every mount the run acquired and still holds.
C28_MountsReleased ==
    /\ pc \in {"run_load", "run_init", "run_discover", "loop", "run_finally"}
           => cleanup_mounts_calls = 0
    /\ pc \in {"run_returned", "exit"}
           => /\ cleanup_mounts_calls = 1
              /\ exit_path \in {"load_failed", "init_failed", "no_files",
                                "completed", "fatal"}
              /\ (acquired \cap mount_table) \subseteq unmount_attempts

\* the lines of sources.txt and the ones that were prepared
Lines == sources_file.lines
PreparedLines == { k \in 1..Len(prepared) : prepared[k] = "prepared" }
SourcesLoaded == pc # "run_load"

\* C29: a source that cannot be prepared (unreachable path, mount failure,
\* unsupported format) is skipped alone: the remaining sources are still
\* prepared and scanned, and load_and_prepare_sources fails the run only
\* when no source at all could be prepared.
C29_FailedSourceSkippedAlone ==
    SourcesLoaded =>
        /\ Len(prepared) = Len(Lines)
        /\ Len(sources) = Cardinality(PreparedLines)
        /\ \A k \in 1..Len(Lines) :
               /\ Lines[k][1] \in ExistingDirs => prepared[k] = "prepared"
               /\ Lines[k][1] \in {"/gone", "ftp://nas/share"} => prepared[k] = "failed"
               /\ prepared[k] = "prepared" =>
                      \E j \in 1..Len(sources) :
                          sources[j] \in {Lines[k][1], "/media/nas",
                                          "/mnt/telegram_backup/nas_share"}
        /\ exit_path = "load_failed" <=> PreparedLines = {}
        /\ files # <<>> =>
               \A p \in DOMAIN disk :
                   (\E j \in 1..Len(sources) : sources[j] \in ParentDirs(p))
                       => \E k \in 1..Len(files) : files[k].path = p

\* a run whose first source was a share that could not be mounted went on
\* with the second source, uploaded its files and completed
C29_Witness ==
    /\ pc = "exit"
    /\ exit_path = "completed"
    /\ Len(Lines) = 2
    /\ Lines[1][1] = "//nas/share"
    /\ prepared = <<"failed", "prepared">>
    /\ acquired = {}
    /\ sources = <<"/src">>
    /\ results.successful = 1

(***************************************************************************)
(* Claims about the pauses between the files of a batch                   *)
(***************************************************************************)
\* the loop of send_files_batch goes on to the next file of the list
NextFileStarts == i \in Positions /\ i' = i + 1

\* C30: after every file of a batch, succeeded or failed, the pipeline
\* pauses before the next file starts: 25 s if size_mb > 1000, else 10 s if
\* size_mb > 100, else 3 s; a file of exactly 100 MB or 1000 MB gets the
\* lower tier.
C30_PauseAfterEveryFile ==
    [][ /\ get_pause_time(100) = 3 /\ get_pause_time(101) = 10
        /\ get_pause_time(1000) = 10 /\ get_pause_time(1001) = 25
        /\ NextFileStarts =>
               /\ pc = "pause"
               /\ sleeping = IF files[i].size_mb > 1000 THEN 25
                             ELSE IF files[i].size_mb > 100 THEN 10 ELSE 3 ]_vars

(***************************************************************************)
(* Claims about the history log as the cleanup engine reads it             *)
(***************************************************************************)
HeaderLess == LogLines # <<>> /\ ~IsHeader(LogLines[1])

Returned_Paths ==
    LET successful == get_successful_uploads(upload_history)
    IN  { successful[k]["source_path"] :
              k \in { j \in 1..Len(successful) : "source_path" \in DOMAIN successful[j] } }

\* C31: after a header-less history log has been loaded, every line of it
\* whose upload_success column is TRUE, the first line included, is among
\* the records get_successful_uploads returns, with its source_path.
C31_LegacyLogTolerated ==
    (history_read = "ok" /\ HeaderLess) =>
        \A j \in 1..Len(LogLines) :
            RowSuccess(LogLines[j]) => RowPath(LogLines[j]) \in Returned_Paths

(***************************************************************************)
(* Claims about the reports to the operator                                *)
(***************************************************************************)
RunCompleted == exit_path = "completed"

\* C32: when a run with delete-after-upload enabled has sent its final
\* report and a file was kept because its source is read-only, the report
\* carries the note that files were kept, whatever the upload outcomes were.
C32_KeptFilesReported ==
    (RunCompleted /\ DELETE_AFTER_UPLOAD /\ kept_read_only # {}) =>
        "kept_note" \in sent

(***************************************************************************)
(* Claims about the result of a batch                                      *)
(***************************************************************************)
BatchReturned == pc = "batch_return" /\ files # <<>>

C34_NoPathTwice ==
    \A j \in 1..Len(files_to_cleanup), k \in 1..Len(files_to_cleanup) :
        j # k => files_to_cleanup[j].path # files_to_cleanup[k].path

(***************************************************************************)
(* Claims about what the cleanup engine leaves alone                       *)
(***************************************************************************)
DeletionCall == pc = "run_delete"

\* C35: a call of delete_file_after_upload leaves every filesystem entry
\* other than its target as it was (a file named .write_test included), and
\* leaves no marker file that was not there before.
C35_OnlyTargetTouched ==
    [][ DeletionCall =>
          /\ \A p \in (DOMAIN disk) \ {files[d].path} :
                 p \in DOMAIN disk' /\ disk'[p] = disk[p]
          /\ (DOMAIN disk') \subseteq (DOMAIN disk) ]_vars

\* C36: no step of the cleanup engine (loading the history, the threshold
\* check, the selection, cleanup_files, run_cleanup, delete_file_after_upload)
\* changes the history log.
C36_LogUntouched ==
    [][history_file' = history_file]_vars

C36_Witness ==
    /\ pc = "cleanup_done"
    /\ deleted # {}
    /\ history_file.exists
    /\ Len(LogLines) = MaxHist + 1
    /\ history_read = "ok"

(***************************************************************************)
(* Claims about the log from its writer to its reader                      *)
(***************************************************************************)
Loaded == pc = "cleanup_check" /\ history_read = "ok"

ReturnedAs(w) ==
    LET successful == get_successful_uploads(upload_history)
    IN  \E k \in 1..Len(successful) :
            /\ successful[k]["source_path"] = w.path
            /\ successful[k]["filename"] = w.name

\* C37: every file whose successful upload record_upload_history has
\* written is, once a CleanupManager has loaded the log, among the records
\* of get_successful_uploads with its path as source_path and its name as
\* filename, also when the name and the path hold a comma.
C37_RoundTrip ==
    Loaded => \A w \in written : ReturnedAs(w)

(***************************************************************************)
(* Claims about a disk whose usage cannot be read                          *)
(***************************************************************************)
SelectionMade ==
    /\ pc \in {"cleanup_delete", "cleanup_final", "cleanup_done", "cleanup_crashed"}
    /\ called_target_gb = DEFAULT_TARGET_FREE_GB

\* C38: needs_cleanup answers True for a disk usage that cannot be read;
\* when the usage get_files_to_cleanup goes by cannot be read, it selects no
\* file, and run_cleanup deletes nothing and returns
\* cleanup_performed = False.
C38_UnknownUsageDeletesNothing ==
    /\ needs_cleanup(NoUsage, DEFAULT_THRESHOLD_GB, DEFAULT_USAGE_PERCENT)
    /\ (SelectionMade /\ ~disk_usage.known) =>
           /\ files_to_cleanup = <<>>
           /\ deleted = {}
           /\ pc = "cleanup_done"
           /\ cleanup_results.cleanup_performed = FALSE

C38_Witness ==
    /\ SelectionMade
    /\ ~disk_usage.known
    /\ cleanup_needed = "yes"
    /\ Len(Candidates(get_successful_uploads(upload_history), disk, mtime)) >= 2
    /\ cleanup_results.cleanup_performed = FALSE

(***************************************************************************)
(* Claims about termination                                                *)
(***************************************************************************)
Terminal(k) == k \in DOMAIN outcome /\ outcome[k] \in {"ok", "fail"}

\* C39: with finitely many rate-limit signals per file, every file whose
\* transfer has started reaches a terminal outcome (uploaded, or failed for
\* good), and a batch that has entered its loop returns.
C39_RetryLoopTerminates ==
    /\ \A k \in 1..MaxFiles : (i = k /\ pc = "send") ~> Terminal(k)
    /\ (pc = "loop") ~> (pc = "batch_return")

C39_Witness ==
    /\ pc = "batch_return"
    /\ Len(files) = MaxFiles
    /\ floods = MaxFlood
    /\ retry_count = MAX_RETRY_ATTEMPTS
    /\ outcome[Len(files)] = "fail"
    /\ \E k \in Positions : outcome[k] = "ok"

=============================================================================
